---- MODULE Spec2Model ----
(***************************************************************************)
(* A model of the client-side selector pipeline of kratos (Default         *)
(* selector, node filters, EWMA node accounting, HTTP client round trip,   *)
(* HTTP and gRPC discovery resolvers) and of the application lifecycle.    *)
(***************************************************************************)
EXTENDS Integers, Sequences, FiniteSets, TLC

(***************************************************************************)
(* Bounds of the model.                                                    *)
(***************************************************************************)
MaxNodes == 2       \* longest node list handed to Apply
MaxApply == 2       \* number of Apply calls in one behaviour
MaxFilters == 1     \* longest list of node filters given to one Select
MaxPicks == 2       \* number of successful Picks in one behaviour
MaxHooks == 2       \* most hooks registered for one phase of the application
MaxServers == 2     \* number of transport servers of the application
MaxP2CNodes == 3    \* number of nodes handed to the P2C balancer
MaxWeight == 2      \* the weights Weight() returns are 1..MaxWeight
MaxWrrNodes == 3    \* longest node list of the weighted round robin balancer
MaxWrrWeight == 3   \* largest configured weight of a node
MaxDones == 3       \* number of Done calls on the EWMA node in one behaviour
MaxClock == 2       \* half-lives that pass in one behaviour of the EWMA node
MaxRetries == 2     \* number of Watcher.Next errors in one behaviour
MaxChain == 3       \* longest list of middlewares given to Chain
MaxPath == 2        \* longest selector path and operation, in letters
MaxAdds == 3        \* number of Use and Add calls on the matcher
MaxMsgs == 2        \* messages sent or received in one streaming RPC
MaxCalls == 3       \* Endpoint calls on one server
MaxInflight == 2    \* requests in flight on one server
MaxEndpoints == 2   \* longest endpoint list of a compared ServiceInstance
RingSlots == 2      \* slots of the in-flight ring (200 in the source)
MaxRingPicks == 4   \* Picks on the node of the ring in one behaviour
MaxRingClock == 2   \* readings of the clock the ring's Picks can take
MaxRounds == 2      \* rounds of overlapping Done closures on one node
MaxWrap == 2        \* errors wrapped around the innermost error of a Done
MaxDrawNodes == 3   \* nodes in the list prePick draws from
MaxConfigValue == 2 \* values a change gives to a config key
MaxWrrAddrs == 3    \* addresses of the nodes applied to a WRR selector
MaxWrrApplies == 3  \* Apply calls of a WRR selector
MaxWrrAddrPicks == 4 \* Picks of a WRR selector across its Applies

Nil == "nil"

Clients == {"c1", "c2"}          \* concurrent callers of Client.Invoke
Appliers == {"r1", "r2"}         \* concurrent callers of Default.Apply

Min(a, b) == IF a < b THEN a ELSE b

SeqRange(s) == {s[i] : i \in 1..Len(s)}

SeqsUpTo(S, n) == UNION {[1..k -> S] : k \in 0..n}

(***************************************************************************)
(* Nodes.  A selector.Node is an address and a version; the other          *)
(* attributes play no part in selection.                                   *)
(***************************************************************************)
Versions == {"v1", "v2"}

NodeOf(i) == [addr |-> i, version |-> IF i % 2 = 1 THEN "v1" ELSE "v2"]

\* The node lists handed to Apply: every contiguous window of the nodes
\* 1..MaxNodes, the empty list (Apply(nil), Apply([]Node{})) included.
ApplyInputs ==
    {[j \in 1..n |-> NodeOf(lo + j - 1)] :
        lo \in 1..MaxNodes, n \in 0..MaxNodes} \cap SeqsUpTo({NodeOf(i) : i \in 1..MaxNodes}, MaxNodes)

VARIABLES
    \* Default selector (selector.Default) and the weighted nodes it built
    wnodes,      \* build id -> the WeightedNodes of that Apply: [node, inflight, reqs, updates]
    arrays,      \* build id -> the array of the slice that Apply stored (pointers)
    applyArg,    \* build id -> the node list that Apply was handed (history)
    rank,        \* build id -> position of its Store in the order of Stores, 0: not stored
    cur,         \* d.nodes: the build id of the stored slice, 0: nothing stored
    builds,      \* number of Apply calls begun
    ap,          \* applier -> [pc, build]
    \* HTTP client calls (Client.Invoke)
    cl,          \* client -> the call's locals
    picks,       \* number of successful Picks so far
    \* Discovery resolvers (transport/http/resolver.go, grpc/resolver/discovery)
    rs,          \* the resolver: [built: "no", "http" or "grpc", insecure, subsetSize]
    ccState,     \* gRPC: [updated, addrs]: the addresses of the last cc.UpdateState
    refused,     \* the number of lists published when an update was last refused
                 \* for want of endpoints (history)
    \* Application lifecycle
    opts,        \* options: the four hook lists and whether a Registrar is set
    app,         \* [state, hist, startPc, stopPc, ctxDone]
    srv,         \* server -> [st: "new", "started", "failed" or "stopped", stops]
    reg,         \* the Registrar's view: [outcome of Register, deregs]
    evlog,       \* the lifecycle steps performed, in order: [ph, id] (history)
    called,      \* Stop caller -> "no", or the state in which its Stop arrived
    \* P2C balancer (selector/p2c) over EWMA nodes
    age,         \* node -> whole seconds since its last Pick, ForcePick + 1: more
    picked,      \* Balancer.picked: the force-probe flag
    pk,          \* picker -> the locals of its Balancer.Pick
    probes,      \* the ages of the forced picks younger than ForcePick (history)
    uneven,      \* some Pick has compared two different weights (history)
    \* Weighted round robin balancer (selector/wrr)
    wrrNodes,    \* the weights of the nodes handed to Pick, in list order
    currentWeight, \* Balancer.currentWeight, by the node's place in the list
    wrrPicked,   \* the last picks, at most sum-of-weights of them (history)
    \* EWMA statistics of one node (selector/node/ewma)
    ew,          \* the node's fields: [stamp, lag, success]
    dn,          \* doner -> the locals of its Pick and Done
    clock,       \* time.Now(), in half-lives of the moving average
    dones,       \* number of Done calls that have returned
    \* Construction and watch loop of a resolver
    wt,          \* [phase, block, first, done, loop, ctxDone, stopped, errs, lastErr]
    \* Middleware
    chain,       \* one call through Chain(m...)(H): [at, arg, handler, depth, log]
    mt,          \* the matcher: [prefix, defaults, matches], the selectors added
                 \* (history), and the last Match: [asked, op, res]
    rpc,         \* one inbound RPC of the gRPC server: [kind, at, next, msgs, log]
    sv,          \* one transport server: listener, endpoint, requests in flight, Stop
    eq,          \* the last ServiceInstance.Equal call: [called, i, o, res]
    er,          \* the last Error.Is call: [called, e, err, res]
    ring,        \* the in-flight ring of one EWMA node: [reqs, inflights, owner, clock, k]
    rc,          \* concurrent Done closures on one EWMA node: [lag, success, base, round, rounds, d]
    cf,          \* the classification of one Done's error
    dr,          \* the pairs prePick has drawn from one node list
    mc,          \* a merged context, its wait goroutine and the callers of Err
    cfg,         \* the config reader's values and the watch goroutines of two sources
    wra          \* the WRR balancer of a selector whose node set is re-applied: [nodes, keys, cw, applies, picks]

selVars == <<wnodes, arrays, applyArg, rank, cur, builds, ap, cl, picks>>

resVars == <<rs, ccState, refused>>

appVars == <<opts, app, srv, reg, evlog, called>>

p2cVars == <<age, picked, pk, probes, uneven>>

wrrVars == <<wrrNodes, currentWeight, wrrPicked>>

ewmaVars == <<ew, dn, clock, dones>>

watchVars == <<wt>>

mwVars == <<chain, mt>>

rpcVars == <<rpc>>

srvVars == <<sv>>

eqVars == <<eq>>

errVars == <<er>>

ringVars == <<ring>>

raceVars == <<rc>>

classifyVars == <<cf>>

drawVars == <<dr>>

mergeVars == <<mc>>

configVars == <<cfg>>

wrrAddrVars == <<wra>>

extVars == <<p2cVars, wrrVars, ewmaVars, watchVars, mwVars, rpcVars, srvVars, eqVars, errVars, ringVars, raceVars, classifyVars, drawVars, mergeVars, configVars, wrrAddrVars>>

vars == <<selVars, resVars, appVars, extVars>>

outsideP2C == <<selVars, resVars, appVars, wrrVars, ewmaVars, watchVars, mwVars, rpcVars, srvVars, eqVars, errVars, ringVars, raceVars, classifyVars, drawVars, mergeVars, configVars, wrrAddrVars>>

outsideWrr == <<selVars, resVars, appVars, p2cVars, ewmaVars, watchVars, mwVars, rpcVars, srvVars, eqVars, errVars, ringVars, raceVars, classifyVars, drawVars, mergeVars, configVars, wrrAddrVars>>

outsideEwma == <<selVars, resVars, appVars, p2cVars, wrrVars, watchVars, mwVars, rpcVars, srvVars, eqVars, errVars, ringVars, raceVars, classifyVars, drawVars, mergeVars, configVars, wrrAddrVars>>

outsideRes == <<appVars, p2cVars, wrrVars, ewmaVars, mwVars, rpcVars, srvVars, eqVars, errVars, ringVars, raceVars, classifyVars, drawVars, mergeVars, configVars, wrrAddrVars>>

outsideMw == <<selVars, resVars, appVars, p2cVars, wrrVars, ewmaVars, watchVars, rpcVars, srvVars, eqVars, errVars, ringVars, raceVars, classifyVars, drawVars, mergeVars, configVars, wrrAddrVars>>

outsideRpc == <<selVars, resVars, appVars, p2cVars, wrrVars, ewmaVars, watchVars, mwVars, srvVars, eqVars, errVars, ringVars, raceVars, classifyVars, drawVars, mergeVars, configVars, wrrAddrVars>>

outsideSrv == <<selVars, resVars, appVars, p2cVars, wrrVars, ewmaVars, watchVars, mwVars, rpcVars, eqVars, errVars, ringVars, raceVars, classifyVars, drawVars, mergeVars, configVars, wrrAddrVars>>

outsideEq == <<selVars, resVars, appVars, p2cVars, wrrVars, ewmaVars, watchVars, mwVars, rpcVars, srvVars, errVars, ringVars, raceVars, classifyVars, drawVars, mergeVars, configVars, wrrAddrVars>>

outsideErr == <<selVars, resVars, appVars, p2cVars, wrrVars, ewmaVars, watchVars, mwVars, rpcVars, srvVars, eqVars, ringVars, raceVars, classifyVars, drawVars, mergeVars, configVars, wrrAddrVars>>

outsideRing == <<selVars, resVars, appVars, p2cVars, wrrVars, ewmaVars, watchVars, mwVars, rpcVars, srvVars, eqVars, errVars, raceVars, classifyVars, drawVars, mergeVars, configVars, wrrAddrVars>>

outsideRace == <<selVars, resVars, appVars, p2cVars, wrrVars, ewmaVars, watchVars, mwVars, rpcVars, srvVars, eqVars, errVars, ringVars, classifyVars, drawVars, mergeVars, configVars, wrrAddrVars>>

outsideClassify == <<selVars, resVars, appVars, p2cVars, wrrVars, ewmaVars, watchVars, mwVars, rpcVars, srvVars, eqVars, errVars, ringVars, raceVars, drawVars, mergeVars, configVars, wrrAddrVars>>

outsideDraw == <<selVars, resVars, appVars, p2cVars, wrrVars, ewmaVars, watchVars, mwVars, rpcVars, srvVars, eqVars, errVars, ringVars, raceVars, classifyVars, mergeVars, configVars, wrrAddrVars>>

outsideMerge == <<selVars, resVars, appVars, p2cVars, wrrVars, ewmaVars, watchVars, mwVars, rpcVars, srvVars, eqVars, errVars, ringVars, raceVars, classifyVars, drawVars, configVars, wrrAddrVars>>

outsideConfig == <<selVars, resVars, appVars, p2cVars, wrrVars, ewmaVars, watchVars, mwVars, rpcVars, srvVars, eqVars, errVars, ringVars, raceVars, classifyVars, drawVars, mergeVars, wrrAddrVars>>

outsideWrrAddr == <<selVars, resVars, appVars, p2cVars, wrrVars, ewmaVars, watchVars, mwVars, rpcVars, srvVars, eqVars, errVars, ringVars, raceVars, classifyVars, drawVars, mergeVars, configVars>>

(***************************************************************************)
(* Errors.                                                                 *)
(***************************************************************************)
ErrNoAvailable == "no_available_node"
ErrNodeNotFound == "NODE_NOT_FOUND"

(***************************************************************************)
(* Node filters.  A NodeFilter is a function from a slice to a slice; what *)
(* matters is which elements it keeps and which array it writes:           *)
(*   alloc     filter.Version: matching nodes appended to a new array;     *)
(*   inplace   mockFilter: matching nodes appended to nodes[:0], that is,  *)
(*             written over the array it was handed;                       *)
(*   truncate  returns nodes[:1] of a non-empty slice.                     *)
(* A slice is [arr, elems]: the array it points into ("snap": the array of *)
(* the loaded snapshot, "tmp": the newNodes array of Select, "fresh": an   *)
(* array nobody else holds) and its elements.  heap holds the contents of  *)
(* the two arrays that can be shared.                                      *)
(***************************************************************************)
Filters ==
    {[kind |-> k, version |-> v] : k \in {"alloc", "inplace"}, v \in Versions}
        \cup {[kind |-> "truncate", version |-> "any"]}

FilterLists == SeqsUpTo(Filters, MaxFilters)

NodeAt(ptr) == wnodes[ptr.b][ptr.i].node

Keep(f, elems) == SelectSeq(elems, LAMBDA x : NodeAt(x).version = f.version)

WriteOver(arr, out) == out \o SubSeq(arr, Len(out) + 1, Len(arr))

RunFilter(f, st) ==
    LET sl == st.slice
    IN CASE f.kind = "alloc" ->
              [slice |-> [arr |-> "fresh", elems |-> Keep(f, sl.elems)],
               heap |-> st.heap]
         [] f.kind = "inplace" ->
              LET out == Keep(f, sl.elems)
              IN [slice |-> [arr |-> sl.arr, elems |-> out],
                  heap |-> IF sl.arr = "fresh" THEN st.heap
                           ELSE [st.heap EXCEPT ![sl.arr] = WriteOver(@, out)]]
         [] OTHER ->
              [slice |-> [arr |-> sl.arr,
                          elems |-> SubSeq(sl.elems, 1, Min(1, Len(sl.elems)))],
               heap |-> st.heap]

RECURSIVE RunFilters(_, _)
RunFilters(fs, st) ==
    IF fs = <<>> THEN st
    ELSE RunFilters(Tail(fs), RunFilter(Head(fs), st))

(***************************************************************************)
(* The mathematical meaning of a filter list, aliasing aside: what a       *)
(* caller expects the filters to keep of a list of nodes.                  *)
(***************************************************************************)
RECURSIVE FilterMeaning(_, _)
FilterMeaning(fs, nodes) ==
    IF fs = <<>> THEN nodes
    ELSE LET f == Head(fs)
             kept == IF f.kind = "truncate"
                     THEN SubSeq(nodes, 1, Min(1, Len(nodes)))
                     ELSE SelectSeq(nodes, LAMBDA n : n.version = f.version)
         IN FilterMeaning(Tail(fs), kept)

(***************************************************************************)
(* EWMA weighted node (selector/node/ewma/node.go).                        *)
(***************************************************************************)
\* A change of Build for comparison: a new node starts with inflight 0.
BuildIdle(n) == [node |-> n, inflight |-> 0, reqs |-> 0, updates |-> 0]

\* Builder.Build: a new node starts with inflight 1.
Build(n) == [node |-> n, inflight |-> 1, reqs |-> 0, updates |-> 0]

\* Node.Pick: inflight++ and reqs++; the returned closure is the pointer.
NodePick(w) == [w EXCEPT !.inflight = @ + 1, !.reqs = @ + 1]

DoneSkipsDecrement(w) == [w EXCEPT !.updates = @ + 1]

\* The Done closure: inflight-- and one update of stamp, lag and success.
NodeDone(w) == [w EXCEPT !.inflight = @ - 1, !.updates = @ + 1]

\* int64(math.Sqrt(float64(x))) for x >= 0
RECURSIVE Newton(_, _)
Newton(x, r) ==
    LET n == (r + x \div r) \div 2
    IN IF n >= r THEN r ELSE Newton(x, n)

ISqrt(x) == IF x = 0 THEN 0 ELSE Newton(x, x)

\* Node.load, in nanoseconds: penalty (100 microseconds) times inflight for
\* a node without statistics, else the root of the larger of the average
\* and the predicted lag plus 5 milliseconds, times inflight.
NodeLoad(avgLag, predict, inflight) ==
    IF avgLag = 0 THEN 100000 * inflight
    ELSE ISqrt((IF predict > avgLag THEN predict ELSE avgLag) + 5000000) * inflight

\* Node.Weight: float64(health * uint64(time.Microsecond) * 10) / float64(load),
\* as the two numbers that are divided: the quotient of a division by 0 is
\* +Inf or NaN.
NodeWeight(health, load) == [num |-> health * 1000 * 10, den |-> load]

(***************************************************************************)
(* Default.Apply and Default.Select.                                       *)
(***************************************************************************)
Builds == 1..MaxApply

Stores == Cardinality({k \in Builds : rank[k] # 0})

\* A change of WeightedNodes for comparison: the node at a place of the
\* first build is used again instead of the one just built.
WeightedNodesReused(k) ==
    [i \in 1..Len(wnodes[k]) |-> [b |-> IF i <= Len(wnodes[1]) THEN 1 ELSE k, i |-> i]]

\* The slice Apply built: one pointer per WeightedNode of build k.
WeightedNodes(k) == [i \in 1..Len(wnodes[k]) |-> [b |-> k, i |-> i]]

ApplyAppendsToOld(old, weightedNodes) == old \o weightedNodes

\* What Apply stores: the slice it built, whatever was stored before.
ApplyPublished(old, weightedNodes) == weightedNodes

ApplyBuild(r, nodes) ==
    /\ ap[r].pc = "idle"
    /\ builds < MaxApply
    /\ LET k == builds + 1
       IN /\ wnodes' = [wnodes EXCEPT ![k] = [i \in 1..Len(nodes) |-> Build(nodes[i])]]
          /\ applyArg' = [applyArg EXCEPT ![k] = nodes]
          /\ builds' = k
          /\ ap' = [ap EXCEPT ![r] = [pc |-> "built", build |-> k]]
    /\ UNCHANGED <<arrays, rank, cur, cl, picks>>
    /\ UNCHANGED <<resVars, appVars, extVars>>

ApplyStore(r) ==
    /\ ap[r].pc = "built"
    /\ LET k == ap[r].build
           old == IF cur = 0 THEN <<>> ELSE arrays[cur]
       IN /\ arrays' = [arrays EXCEPT ![k] = ApplyPublished(old, WeightedNodes(k))]
          /\ rank' = [rank EXCEPT ![k] = Stores + 1]
          /\ cur' = k
    /\ ap' = [ap EXCEPT ![r] = [pc |-> "idle", build |-> 0]]
    /\ UNCHANGED <<wnodes, applyArg, builds, cl, picks>>
    /\ UNCHANGED <<resVars, appVars, extVars>>

\* The nil Node and the nil DoneFunc.
NilNode == [addr |-> 0, version |-> "none"]

NilDone == [b |-> 0, i |-> 0]

NoResult == [node |-> NilNode, done |-> NilDone, err |-> Nil]

\* return nil, nil, ErrNoAvailable
SelectFailed == [node |-> NilNode, done |-> NilDone, err |-> ErrNoAvailable]

\* The per-call options of a call, each with an after hook.
CallOptions == {"o1", "o2"}

\* peer is the selector.Peer that Client.invoke puts in the call's context,
\* after the options whose after hook was applied.
IdleCall ==
    [pc |-> "idle", filters |-> <<>>, floor |-> 0, ref |-> 0, res |-> NoResult,
     err |-> Nil, doneCount |-> 0, doneErr |-> Nil, ret |-> Nil,
     peer |-> NilNode, after |-> {}]

SliceNotCopied(nodes) == nodes

\* newNodes := make([]Node, len(nodes)) and the copy loop: the filters are
\* handed a new array holding the snapshot's elements.
CopySlice(nodes) == [arr |-> "tmp", elems |-> nodes.elems]

\* The filtering of Select: the final slice and the contents of the arrays.
Filtered(nodes, fs) ==
    LET heap0 == [snap |-> nodes.elems, tmp |-> nodes.elems]
    IN IF Len(fs) > 0
       THEN RunFilters(fs, [slice |-> CopySlice(nodes), heap |-> heap0])
       ELSE [slice |-> nodes, heap |-> heap0]

PickFallsBackToAll(nodes, candidates) ==
    IF Len(candidates) = 0 THEN nodes ELSE candidates

PickIgnoresFilters(nodes, candidates) == nodes

\* The list handed to Balancer.Pick is the filtered one.
PickInput(nodes, candidates) == candidates

\* Client.Invoke, up to the call of Select.
InvokeBegin(p) ==
    /\ cl[p].pc = "idle"
    /\ picks < MaxPicks
    /\ cl' = [cl EXCEPT ![p] = [IdleCall EXCEPT !.pc = "select", !.floor = Stores]]
    /\ UNCHANGED <<wnodes, arrays, applyArg, rank, cur, builds, ap, picks>>
    /\ UNCHANGED <<resVars, appVars, extVars>>

\* A change of PeerSlot for comparison: the slot is written on every return.
PeerSlotAlways(peer, res) == res.node

\* p, ok := FromPeerContext(ctx); if ok { p.Node = wn.Raw() }: reached only
\* when Select succeeds.
PeerSlot(peer, res) == IF res.err = Nil THEN res.node ELSE peer

\* Select: d.nodes.Load(), and the return when nothing was ever stored.
SelectLoad(p) ==
    /\ cl[p].pc = "select"
    /\ cl' = [cl EXCEPT ![p] =
                IF cur = 0
                THEN [@ EXCEPT !.pc = "selected", !.res = SelectFailed,
                               !.peer = PeerSlot(@, SelectFailed)]
                ELSE [@ EXCEPT !.pc = "loaded", !.ref = cur]]
    /\ UNCHANGED <<wnodes, arrays, applyArg, rank, cur, builds, ap, picks>>
    /\ UNCHANGED <<resVars, appVars, extVars>>

\* Select from the filters on: candidates, Balancer.Pick (any index, as the
\* random balancer draws it; WRR and P2C draw one of them), Node.Pick.
\* fs are the NodeFilters of the call's options, first read here.
SelectPick(p, fs) ==
    /\ cl[p].pc = "loaded"
    /\ LET k == cl[p].ref
           nodes == [arr |-> "snap", elems |-> arrays[k]]
           f == Filtered(nodes, fs)
           candidates == PickInput(nodes.elems, f.slice.elems)
       IN /\ arrays' = [arrays EXCEPT ![k] = f.heap.snap]
          /\ IF Len(candidates) = 0
             THEN /\ cl' = [cl EXCEPT ![p].pc = "selected", ![p].filters = fs,
                                      ![p].res = SelectFailed,
                                      ![p].peer = PeerSlot(@, SelectFailed)]
                  /\ UNCHANGED <<wnodes, picks>>
             ELSE \E cur_ \in 1..Len(candidates) :
                    LET wn == candidates[cur_]
                        res == [node |-> NodeAt(wn), done |-> wn, err |-> Nil]
                    IN /\ wnodes' = [wnodes EXCEPT ![wn.b][wn.i] = NodePick(@)]
                       /\ picks' = picks + 1
                       /\ cl' = [cl EXCEPT ![p].pc = "selected", ![p].filters = fs,
                                           ![p].res = res,
                                           ![p].peer = PeerSlot(@, res)]
    /\ UNCHANGED <<applyArg, rank, cur, builds, ap>>
    /\ UNCHANGED <<resVars, appVars, extVars>>

\* errors.ServiceUnavailable(reason, message)
ServiceUnavailable(reason, message) ==
    [code |-> 503, reason |-> reason, message |-> message]

\* err.Error() of a framework error with the given reason and no message.
ErrorText(reason) == <<"code", 503, "reason", reason, "message", "">>

\* A change of AfterSelect for comparison: the request is sent whatever
\* Select returned.
AfterSelectSends(c) ==
    [c EXCEPT !.pc = "sending", !.res.node = NilNode,
              !.filters = <<>>, !.floor = 0, !.ref = 0]

\* Client.do after Select: an error of Select is returned as
\* ServiceUnavailable("NODE_NOT_FOUND", err.Error()) before any request.
AfterSelect(c) ==
    IF c.res.err # Nil
    THEN [c EXCEPT !.pc = "returned",
                   !.ret = ServiceUnavailable(ErrNodeNotFound, ErrorText(c.res.err)),
                   !.floor = 0]
    ELSE [c EXCEPT !.pc = "sending", !.res.node = NilNode,
                   !.filters = <<>>, !.floor = 0, !.ref = 0]

DoSelected(p) ==
    /\ cl[p].pc = "selected"
    /\ cl' = [cl EXCEPT ![p] = AfterSelect(@)]
    /\ UNCHANGED <<wnodes, arrays, applyArg, rank, cur, builds, ap, picks>>
    /\ UNCHANGED <<resVars, appVars, extVars>>

\* The errors of client.cc.Do(req) followed, when it succeeds, by the error
\* decoder: none, a transport failure, the cancellation or deadline of the
\* request's context, an error decoded from a non-2xx reply.
RoundTripErrors == {Nil, "transport", "canceled", "decoded"}

RoundTrip(p, e) ==
    /\ cl[p].pc = "sending"
    /\ cl' = [cl EXCEPT ![p].pc = "calldone", ![p].err = e]
    /\ UNCHANGED <<wnodes, arrays, applyArg, rank, cur, builds, ap, picks>>
    /\ UNCHANGED <<resVars, appVars, extVars>>

\* Client.invoke after do returned: if res != nil, every option's after
\* hook; do returns a nil response with every error.
AfterHooks(err) == IF err = Nil THEN CallOptions ELSE {}

\* Client.do: done(req.Context(), DoneInfo{Err: err}), then the return.
DoDone(p) ==
    /\ cl[p].pc = "calldone"
    /\ LET wn == cl[p].res.done
       IN wnodes' = [wnodes EXCEPT ![wn.b][wn.i] = NodeDone(@)]
    /\ cl' = [cl EXCEPT ![p] =
                [@ EXCEPT !.doneCount = @ + 1, !.doneErr = cl[p].err,
                          !.after = AfterHooks(cl[p].err),
                          !.pc = IF cl[p].err # Nil THEN "returned" ELSE "decode",
                          !.ret = cl[p].err, !.err = Nil]]
    /\ UNCHANGED <<arrays, applyArg, rank, cur, builds, ap, picks>>
    /\ UNCHANGED <<resVars, appVars, extVars>>

\* Client.invoke after do succeeded: the response decoder reads the body,
\* which fails on a malformed body or when the context ends meanwhile.
DecodeErrors == {Nil, "decode", "canceled"}

InvokeDecode(p, e) ==
    /\ cl[p].pc = "decode"
    /\ cl' = [cl EXCEPT ![p].pc = "returned", ![p].ret = e]
    /\ UNCHANGED <<wnodes, arrays, applyArg, rank, cur, builds, ap, picks>>
    /\ UNCHANGED <<resVars, appVars, extVars>>

\* The caller takes the result; the client is free for its next call.
InvokeReturn(p) ==
    /\ cl[p].pc = "returned"
    /\ cl' = [cl EXCEPT ![p] = IdleCall]
    /\ UNCHANGED <<wnodes, arrays, applyArg, rank, cur, builds, ap, picks>>
    /\ UNCHANGED <<resVars, appVars, extVars>>

\* A middleware of the client calls the handler again: another Select
\* and round trip with the same context, and so the same Peer.
InvokeAgain(p) ==
    /\ cl[p].pc = "returned"
    /\ picks < MaxPicks
    /\ cl' = [cl EXCEPT ![p] = [IdleCall EXCEPT !.pc = "select", !.floor = Stores,
                                                !.peer = cl[p].peer]]
    /\ UNCHANGED <<wnodes, arrays, applyArg, rank, cur, builds, ap, picks>>
    /\ UNCHANGED <<resVars, appVars, extVars>>

SelInit ==
    /\ wnodes = [k \in Builds |-> <<>>]
    /\ arrays = [k \in Builds |-> <<>>]
    /\ applyArg = [k \in Builds |-> <<>>]
    /\ rank = [k \in Builds |-> 0]
    /\ cur = 0
    /\ builds = 0
    /\ ap = [r \in Appliers |-> [pc |-> "idle", build |-> 0]]
    /\ cl = [p \in Clients |-> IdleCall]
    /\ picks = 0

(***************************************************************************)
(* Discovery resolvers.  A registry.ServiceInstance is an id, a version    *)
(* and a list of endpoint URIs; an endpoint is its scheme and its host,    *)
(* or a string url.Parse rejects.                                          *)
(***************************************************************************)
MaxInstances == 2   \* longest instance list one Watcher.Next delivers
MaxSubset == 1      \* largest subset size of a resolver

\* endpoint.Scheme: the protocol name, with "s" appended when secure.
Scheme(scheme, isSecure) == [proto |-> scheme, s |-> isSecure]

Ep(proto, secure, host) == [ok |-> TRUE, scheme |-> Scheme(proto, secure), host |-> host]

BadEp == [ok |-> FALSE, scheme |-> Scheme("none", FALSE), host |-> 0]

Instances ==
    {[id |-> 1, version |-> "v1",
      endpoints |-> <<Ep("http", FALSE, 1), Ep("grpc", FALSE, 1)>>],
     [id |-> 2, version |-> "v2",
      endpoints |-> <<Ep("grpc", FALSE, 1), Ep("http", FALSE, 2)>>],
     [id |-> 3, version |-> "v1", endpoints |-> <<BadEp, Ep("http", FALSE, 1)>>],
     [id |-> 4, version |-> "v2",
      endpoints |-> <<Ep("http", TRUE, 1), Ep("http", FALSE, 1), Ep("grpc", TRUE, 2)>>]}

WatchResults == SeqsUpTo(Instances, MaxInstances)

\* endpoint.ParseEndpoint: the host of the first endpoint of the scheme; an
\* endpoint that does not parse before it is an error; "" (0) when none.
RECURSIVE ParseEndpoint(_, _)
ParseEndpoint(endpoints, scheme) ==
    IF endpoints = <<>> THEN [ept |-> 0, err |-> FALSE]
    ELSE LET e == Head(endpoints)
         IN IF ~e.ok THEN [ept |-> 0, err |-> TRUE]
            ELSE IF e.scheme = scheme THEN [ept |-> e.host, err |-> FALSE]
            ELSE ParseEndpoint(Tail(endpoints), scheme)

\* The instances a resolver keeps: those with an endpoint of its scheme;
\* the gRPC resolver also drops an instance whose endpoint it has seen.
RECURSIVE FilterInstances(_, _, _, _)
FilterInstances(ins, scheme, dedup, seen) ==
    IF ins = <<>> THEN <<>>
    ELSE LET in == Head(ins)
             r == ParseEndpoint(in.endpoints, scheme)
         IN IF r.err \/ r.ept = 0 \/ (dedup /\ r.ept \in seen)
            THEN FilterInstances(Tail(ins), scheme, dedup, seen)
            ELSE <<in>> \o FilterInstances(Tail(ins), scheme, dedup, seen \cup {r.ept})

\* subset.Subset (github.com/go-kratos/aegis): the list itself when it has
\* no more than num members, else num of its members, chosen by the
\* selector key: any num members, in any order.
Subset(inss, num) ==
    IF Len(inss) <= num THEN {inss}
    ELSE {[j \in 1..num |-> inss[f[j]]] :
            f \in {g \in [1..num -> 1..Len(inss)] :
                     \A a, b \in 1..num : a # b => g[a] # g[b]}}

Subsetted(filtered, subsetSize) ==
    IF subsetSize # 0 THEN Subset(filtered, subsetSize) ELSE {filtered}

\* selector.NewNode("http", ept, ins)
NewNode(ept, ins) == [addr |-> ept, version |-> ins.version]

HttpNodes(filtered, insecure) ==
    [i \in 1..Len(filtered) |->
        NewNode(ParseEndpoint(filtered[i].endpoints, Scheme("http", ~insecure)).ept,
                filtered[i])]

GrpcAddrs(filtered, insecure) ==
    [i \in 1..Len(filtered) |->
        [Addr |-> ParseEndpoint(filtered[i].endpoints, Scheme("grpc", ~insecure)).ept,
         ServerName |-> filtered[i].id]]

WritesAnyList(nodes) == FALSE

\* "Zero endpoint found, refused to write": update publishes nothing.
ZeroEndpoint(nodes) == Len(nodes) = 0

\* r.update(services) of the HTTP resolver up to the test for an empty
\* list: the nodes it is about to apply.
HttpUpdateNodes(services, insecure, subsetSize) ==
    {HttpNodes(filtered, insecure) :
        filtered \in Subsetted(FilterInstances(services, Scheme("http", ~insecure),
                                               FALSE, {}), subsetSize)}

\* r.update(ins) of the gRPC resolver up to the test for an empty list.
GrpcUpdateAddrs(ins, insecure, subsetSize) ==
    {GrpcAddrs(filtered, insecure) :
        filtered \in Subsetted(FilterInstances(ins, Scheme("grpc", ~insecure),
                                               TRUE, {}), subsetSize)}

\* What one round of a watch loop can compute, for each choice of options,
\* over everything Watcher.Next can deliver.
HttpRounds ==
    [insecure \in BOOLEAN, subsetSize \in 0..MaxSubset |->
        UNION {HttpUpdateNodes(services, insecure, subsetSize) : services \in WatchResults}]

GrpcRounds ==
    [insecure \in BOOLEAN, subsetSize \in 0..MaxSubset |->
        UNION {GrpcUpdateAddrs(ins, insecure, subsetSize) : ins \in WatchResults}]

\* A change of BlockEnds for comparison: the first update ends the wait
\* whatever it returns.
BlockEndsAnyway(updated) == TRUE

\* if r.update(services) { done <- nil; return }
BlockEnds(updated) == updated

\* The goroutine of newResolver that is running: the one of the block
\* phase or the background one.
Watching(at) == wt.first = at \/ wt.loop = at

\* r.update has returned in the goroutine that called it.
Updated(w, updated) ==
    IF w.first # "off" /\ w.first # "gone"
    THEN IF BlockEnds(updated)
         THEN [w EXCEPT !.first = "gone", !.done = "nil"]
         ELSE [w EXCEPT !.first = "next"]
    ELSE [w EXCEPT !.loop = "next"]

\* One round of the watch loop of the HTTP resolver: watcher.Next()
\* delivers some services, and r.update(services), up to the build of
\* Apply; ApplyStore("r1") and HttpUpdateReturn end it.
HttpResolverUpdate ==
    /\ rs.built = "http"
    /\ Watching("next")
    /\ ap["r1"].pc = "idle"
    /\ \E nodes \in HttpRounds[rs.insecure, rs.subsetSize] :
         IF ZeroEndpoint(nodes)
         THEN /\ refused' = Stores
              /\ wt' = Updated(wt, FALSE)
              /\ UNCHANGED <<selVars, rs, ccState, outsideRes>>
         ELSE /\ builds < MaxApply
              /\ wt' = IF wt.first = "next" THEN [wt EXCEPT !.first = "applying"]
                                            ELSE [wt EXCEPT !.loop = "applying"]
              /\ LET k == builds + 1
                 IN /\ wnodes' = [wnodes EXCEPT
                                    ![k] = [i \in 1..Len(nodes) |-> Build(nodes[i])]]
                    /\ applyArg' = [applyArg EXCEPT ![k] = nodes]
                    /\ builds' = k
                    /\ ap' = [ap EXCEPT !["r1"] = [pc |-> "built", build |-> k]]
              /\ UNCHANGED <<arrays, rank, cur, cl, picks, resVars, outsideRes>>

\* r.rebalancer.Apply(nodes) has returned: return true.
HttpUpdateReturn ==
    /\ Watching("applying")
    /\ ap["r1"].pc = "idle"
    /\ wt' = Updated(wt, TRUE)
    /\ UNCHANGED <<selVars, resVars, outsideRes>>

\* One round of (*discoveryResolver).watch: r.w.Next() delivers some
\* instances, and r.update(ins).
GrpcResolverUpdate ==
    /\ rs.built = "grpc"
    /\ wt.loop = "next"
    /\ \E addrs \in GrpcRounds[rs.insecure, rs.subsetSize] :
         IF ZeroEndpoint(addrs)
         THEN /\ refused' = IF ccState.updated THEN 1 ELSE 0
              /\ UNCHANGED <<selVars, rs, ccState, wt, outsideRes>>
         ELSE /\ ccState' = [updated |-> TRUE, addrs |-> addrs]
              /\ UNCHANGED <<selVars, rs, refused, wt, outsideRes>>

\* newResolver (HTTP) or the gRPC builder's Build: the options are fixed
\* here and the first goroutine is started: with block, the one that the
\* constructor waits for; else the background watch loop.  Only the HTTP
\* resolver has the block option.
NewResolver(kind, insecure, subsetSize) ==
    /\ rs.built = "no"
    /\ rs' = [built |-> kind, insecure |-> insecure, subsetSize |-> subsetSize]
    /\ \E block \in BOOLEAN :
          /\ block => kind = "http"
          /\ wt' = IF block
                   THEN [wt EXCEPT !.block = TRUE, !.phase = "blocked", !.first = "next"]
                   ELSE [wt EXCEPT !.phase = "built", !.loop = "next"]
    /\ UNCHANGED <<selVars, ccState, refused, outsideRes>>

NextErrors == {"canceled", "failed"}

\* A change of LoopAfterError for comparison: any error ends the loop.
LoopEndsOnError(err) == "ended"

\* if errors.Is(err, context.Canceled) { return }; time.Sleep(time.Second)
LoopAfterError(err) == IF err = "canceled" THEN "ended" ELSE "sleep"

\* watcher.Next() returns an error, in the goroutine of the block phase
\* (done <- err) or in the background loop.
WatchNextError(err) ==
    /\ Watching("next")
    /\ wt.errs < MaxRetries
    /\ wt' = IF wt.first = "next"
             THEN [wt EXCEPT !.first = "gone", !.done = "err",
                             !.errs = @ + 1, !.lastErr = err]
             ELSE [wt EXCEPT !.loop = LoopAfterError(err),
                             !.errs = @ + 1, !.lastErr = err]
    /\ UNCHANGED <<selVars, resVars, outsideRes>>

\* time.Sleep(time.Second) is over: continue.
WatchWake ==
    /\ wt.loop = "sleep"
    /\ wt' = [wt EXCEPT !.loop = "next"]
    /\ UNCHANGED <<selVars, resVars, outsideRes>>

\* The select of the block phase: done has a value, or the context is done.
BlockSelect ==
    /\ wt.phase = "blocked"
    /\ \/ /\ wt.done = "nil"
          /\ wt' = [wt EXCEPT !.phase = "built", !.loop = "next", !.done = "none"]
       \/ /\ wt.done = "err"
          /\ wt' = [wt EXCEPT !.phase = "failed", !.stopped = TRUE, !.done = "none"]
       \/ /\ wt.ctxDone
          /\ wt' = [wt EXCEPT !.phase = "failed", !.stopped = TRUE]
    /\ UNCHANGED <<selVars, resVars, outsideRes>>

\* The context given to the constructor, or the gRPC resolver's own
\* context (Close), is cancelled or times out.
CtxDone ==
    /\ rs.built # "no"
    /\ ~wt.ctxDone
    /\ wt' = [wt EXCEPT !.ctxDone = TRUE]
    /\ UNCHANGED <<selVars, resVars, outsideRes>>

\* The head of (*discoveryResolver).watch: case <-r.ctx.Done(): return
GrpcWatchCtxDone ==
    /\ rs.built = "grpc"
    /\ wt.loop = "next"
    /\ wt.ctxDone
    /\ wt' = [wt EXCEPT !.loop = "ended"]
    /\ UNCHANGED <<selVars, resVars, outsideRes>>

\* resolver.Close (HTTP): r.watcher.Stop(); Close of the gRPC resolver:
\* r.cancel() and r.w.Stop().  The gRPC loop is at its head or inside Next.
ResolverClose ==
    /\ wt.phase = "built"
    /\ ~wt.stopped
    /\ \E at \in {"next", "innext"} :
          /\ at = "innext" => (rs.built = "grpc" /\ wt.loop = "next")
          /\ wt' = [wt EXCEPT !.stopped = TRUE,
                              !.ctxDone = IF rs.built = "grpc" THEN TRUE ELSE @,
                              !.loop = IF at = "innext" THEN "innext" ELSE @]
    /\ UNCHANGED <<selVars, resVars, outsideRes>>

\* Next of a stopped Watcher returns an error: to the HTTP loop whenever it
\* calls Next, to the gRPC loop if it was inside Next when Close came.
StoppedNext(err) ==
    /\ wt.phase = "built"
    /\ wt.stopped
    /\ \/ rs.built = "http" /\ wt.loop = "next"
       \/ wt.loop = "innext"
    /\ wt' = [wt EXCEPT !.loop = LoopAfterError(err), !.lastErr = err]
    /\ UNCHANGED <<selVars, resVars, outsideRes>>

ResInit ==
    /\ rs = [built |-> "no", insecure |-> TRUE, subsetSize |-> 0]
    /\ ccState = [updated |-> FALSE, addrs |-> <<>>]
    /\ refused = 0
    /\ wt = [phase |-> "new", block |-> FALSE, first |-> "off", done |-> "none",
             loop |-> "off", ctxDone |-> FALSE, stopped |-> FALSE,
             errs |-> 0, lastErr |-> "none"]

(***************************************************************************)
(* Application lifecycle.  The options come from options.go; App.Run and   *)
(* App.Stop are modelled from section 4.8 of the specification: one step   *)
(* per hook, per server and per Registrar call.                            *)
(***************************************************************************)
Servers == 1..MaxServers

StopCallers == {"signal", "user"}     \* the signal handler and a caller of Stop

HookPhases == {"beforeStart", "afterStart", "beforeStop", "afterStop"}

\* A change of the prepend kind, for comparison: the new hook goes first.
PrependHook(hooks, fn) == <<fn>> \o hooks

\* o.beforeStart = append(o.beforeStart, fn), and the three like it.
AppendHook(hooks, fn) == Append(hooks, fn)

\* One hook option applied: the hook is named by its place in the order of
\* registration for its phase.
HookOption(ph) ==
    /\ app.state = "Created"
    /\ Len(opts[ph]) < MaxHooks
    /\ opts' = [opts EXCEPT ![ph] = AppendHook(@, Len(@) + 1)]
    /\ UNCHANGED <<app, srv, reg, evlog, called, selVars, resVars, extVars>>

BeforeStart == HookOption("beforeStart")

BeforeStop == HookOption("beforeStop")

AfterStart == HookOption("afterStart")

AfterStop == HookOption("afterStop")

\* Registrar(r): o.registrar = r.
Registrar ==
    /\ app.state = "Created"
    /\ ~opts.registrar
    /\ opts' = [opts EXCEPT !.registrar = TRUE]
    /\ UNCHANGED <<app, srv, reg, evlog, called, selVars, resVars, extVars>>

HooksRun(ph) == Cardinality({i \in DOMAIN evlog : evlog[i].ph = ph})

Event(ph, id) == [ph |-> ph, id |-> id]

Enter(state) == [app EXCEPT !.state = state, !.hist = Append(@, state)]

\* Start gives up after its first step: the Stop sequence begins and Start
\* waits for the root context.
Abort == [Enter("Stopping") EXCEPT !.startPc = "aborted", !.stopPc = "beforeStop"]

\* A change of Registered for comparison: every Register call counts.
RegisterCalled(r) == r.outcome # "none"

\* Stop step 2 deregisters the instance that Start registered.
Registered(r) == r.outcome = "ok"

\* A change of StopClaims for comparison: any Stop after Run began.
StopClaimsAgain(state) == state # "Created"

\* The Stop call that finds the application starting or running performs
\* the Stop sequence; every other call returns at once.
StopClaims(state) == state \in {"Starting", "Running"}

\* Run is called: Created -> Starting.
RunBegin ==
    /\ app.state = "Created"
    /\ app' = [Enter("Starting") EXCEPT !.startPc = "beforeStart"]
    /\ UNCHANGED <<opts, srv, reg, evlog, called, selVars, resVars, extVars>>

\* Start step 1: the next beforeStart hook; an error aborts, nothing has
\* been started.
RunBeforeStart(ok) ==
    /\ app.state = "Starting"
    /\ app.startPc = "beforeStart"
    /\ IF HooksRun("beforeStart") < Len(opts.beforeStart)
       THEN /\ evlog' = Append(evlog,
                   Event("beforeStart", opts.beforeStart[HooksRun("beforeStart") + 1]))
            /\ app' = IF ok THEN app
                      ELSE [Enter("Stopped") EXCEPT !.startPc = "returned"]
       ELSE /\ ok
            /\ app' = [app EXCEPT !.startPc = "servers"]
            /\ UNCHANGED evlog
    /\ UNCHANGED <<opts, srv, reg, called, selVars, resVars, extVars>>

\* Start step 2: one more server starts; an error triggers Stop.
RunServers(ok) ==
    /\ app.state = "Starting"
    /\ app.startPc = "servers"
    /\ IF \E s \in Servers : srv[s].st = "new"
       THEN \E s \in Servers :
              /\ srv[s].st = "new"
              /\ evlog' = Append(evlog, Event("serverStart", s))
              /\ srv' = [srv EXCEPT ![s].st = IF ok THEN "started" ELSE "failed"]
              /\ app' = IF ok THEN app ELSE Abort
       ELSE /\ ok
            /\ app' = [app EXCEPT !.startPc = "register"]
            /\ UNCHANGED <<srv, evlog>>
    /\ UNCHANGED <<opts, reg, called, selVars, resVars, extVars>>

\* Start step 3: Registrar.Register; a failure is fatal and triggers Stop.
RunRegister(ok) ==
    /\ app.state = "Starting"
    /\ app.startPc = "register"
    /\ IF opts.registrar
       THEN /\ evlog' = Append(evlog, Event("register", 0))
            /\ reg' = [reg EXCEPT !.outcome = IF ok THEN "ok" ELSE "failed"]
            /\ app' = IF ok THEN [app EXCEPT !.startPc = "afterStart"] ELSE Abort
       ELSE /\ ok
            /\ app' = [app EXCEPT !.startPc = "afterStart"]
            /\ UNCHANGED <<reg, evlog>>
    /\ UNCHANGED <<opts, srv, called, selVars, resVars, extVars>>

\* Start steps 4 to 6: the next afterStart hook, then Running, blocked on
\* the root context.
RunAfterStart(ok) ==
    /\ app.state = "Starting"
    /\ app.startPc = "afterStart"
    /\ IF HooksRun("afterStart") < Len(opts.afterStart)
       THEN /\ evlog' = Append(evlog,
                   Event("afterStart", opts.afterStart[HooksRun("afterStart") + 1]))
            /\ app' = IF ok THEN app ELSE Abort
       ELSE /\ ok
            /\ app' = [Enter("Running") EXCEPT !.startPc = "blocked"]
            /\ UNCHANGED evlog
    /\ UNCHANGED <<opts, srv, reg, called, selVars, resVars, extVars>>

\* Start step 6 ends: the root context is cancelled, Run returns.
RunReturn ==
    /\ app.ctxDone
    /\ app.startPc \notin {"new", "returned"}
    /\ app' = [app EXCEPT !.startPc = "returned"]
    /\ UNCHANGED <<opts, srv, reg, evlog, called, selVars, resVars, extVars>>

\* Stop is called, by the signal handler or by anyone.
Stop(c) ==
    /\ called[c] = "no"
    /\ called' = [called EXCEPT ![c] = app.state]
    /\ app' = IF StopClaims(app.state)
              THEN [Enter("Stopping") EXCEPT !.stopPc = "beforeStop"]
              ELSE app
    /\ UNCHANGED <<opts, srv, reg, evlog, selVars, resVars, extVars>>

\* Stop step 1: the next beforeStop hook; errors are logged.
StopBeforeStop ==
    /\ app.stopPc = "beforeStop"
    /\ IF HooksRun("beforeStop") < Len(opts.beforeStop)
       THEN /\ evlog' = Append(evlog,
                   Event("beforeStop", opts.beforeStop[HooksRun("beforeStop") + 1]))
            /\ UNCHANGED app
       ELSE /\ app' = [app EXCEPT !.stopPc = "deregister"]
            /\ UNCHANGED evlog
    /\ UNCHANGED <<opts, srv, reg, called, selVars, resVars, extVars>>

\* Stop step 2: Registrar.Deregister; errors are logged.
StopDeregister ==
    /\ app.stopPc = "deregister"
    /\ IF Registered(reg)
       THEN /\ evlog' = Append(evlog, Event("deregister", 0))
            /\ reg' = [reg EXCEPT !.deregs = @ + 1]
       ELSE UNCHANGED <<reg, evlog>>
    /\ app' = [app EXCEPT !.stopPc = "servers"]
    /\ UNCHANGED <<opts, srv, called, selVars, resVars, extVars>>

\* Stop steps 3 and 4: one more started server stops; when none is left the
\* root context is cancelled.
StopServers ==
    /\ app.stopPc = "servers"
    /\ IF \E s \in Servers : srv[s].st = "started"
       THEN \E s \in Servers :
              /\ srv[s].st = "started"
              /\ evlog' = Append(evlog, Event("serverStop", s))
              /\ srv' = [srv EXCEPT ![s] = [st |-> "stopped", stops |-> @.stops + 1]]
              /\ UNCHANGED app
       ELSE /\ app' = [app EXCEPT !.stopPc = "afterStop", !.ctxDone = TRUE]
            /\ UNCHANGED <<srv, evlog>>
    /\ UNCHANGED <<opts, reg, called, selVars, resVars, extVars>>

\* Stop step 5: the next afterStop hook, then Stopped.
StopAfterStop ==
    /\ app.stopPc = "afterStop"
    /\ IF HooksRun("afterStop") < Len(opts.afterStop)
       THEN /\ evlog' = Append(evlog,
                   Event("afterStop", opts.afterStop[HooksRun("afterStop") + 1]))
            /\ UNCHANGED app
       ELSE /\ app' = [Enter("Stopped") EXCEPT !.stopPc = "done"]
            /\ UNCHANGED evlog
    /\ UNCHANGED <<opts, srv, reg, called, selVars, resVars, extVars>>

AppInit ==
    /\ opts = [beforeStart |-> <<>>, afterStart |-> <<>>, beforeStop |-> <<>>,
               afterStop |-> <<>>, registrar |-> FALSE]
    /\ app = [state |-> "Created", hist |-> <<"Created">>, startPc |-> "new",
              stopPc |-> "idle", ctxDone |-> FALSE]
    /\ srv = [s \in Servers |-> [st |-> "new", stops |-> 0]]
    /\ reg = [outcome |-> "none", deregs |-> 0]
    /\ evlog = <<>>
    /\ called = [c \in StopCallers |-> "no"]

(***************************************************************************)
(* P2C balancer (selector/p2c/p2c.go) over EWMA nodes.  Time is counted in *)
(* whole seconds; a node's age is the value of PickElapsed, kept up to     *)
(* ForcePick + 1 ("more than ForcePick").  The weights that Weight()       *)
(* returns depend on the nodes' statistics and on the clock; a Pick draws  *)
(* them from 1..MaxWeight.                                                 *)
(***************************************************************************)
ForcePick == 3

P2CNodes == 1..MaxP2CNodes

Pickers == {"q1", "q2"}           \* concurrent callers of Balancer.Pick

\* A change of PrePick for comparison: b is used as drawn.
PrePickNoShift(a, b) == [nodeA |-> a + 1, nodeB |-> b + 1]

\* prePick: a in [0, n), b in [0, n-1), b moved past a; the two nodes.
PrePick(a, b) == [nodeA |-> a + 1, nodeB |-> IF b >= a THEN b + 2 ELSE b + 1]

\* A change of PcUpc for comparison: the comparison is the other way round.
PcUpcSwapped(nodeA, nodeB, wa, wb) ==
    IF wb < wa THEN [pc |-> nodeB, upc |-> nodeA] ELSE [pc |-> nodeA, upc |-> nodeB]

\* if nodeB.Weight() > nodeA.Weight() { pc, upc = nodeB, nodeA } else ...
PcUpc(nodeA, nodeB, wa, wb) ==
    IF wb > wa THEN [pc |-> nodeB, upc |-> nodeA] ELSE [pc |-> nodeA, upc |-> nodeB]

IdlePick == [at |-> "idle", nodeA |-> 0, nodeB |-> 0, wa |-> 0, wb |-> 0,
             pc |-> 0, upc |-> 0, stale |-> FALSE, slot |-> "none"]

\* Balancer.Pick up to the choice of pc and upc (two or more nodes).
BalancerPick(q, a, b, wa, wb) ==
    /\ pk[q].at = "idle"
    /\ LET drawn == PrePick(a, b)
           order == PcUpc(drawn.nodeA, drawn.nodeB, wa, wb)
       IN pk' = [pk EXCEPT ![q] = [at |-> "elapsed",
                                   nodeA |-> drawn.nodeA, nodeB |-> drawn.nodeB,
                                   wa |-> wa, wb |-> wb,
                                   pc |-> order.pc, upc |-> order.upc,
                                   stale |-> FALSE, slot |-> "none"]]
    /\ uneven' = (uneven \/ wa # wb)
    /\ UNCHANGED <<age, picked, probes, outsideP2C>>

\* upc.PickElapsed() > forcePick
PickElapsed(q) ==
    /\ pk[q].at = "elapsed"
    /\ LET stale == age[pk[q].upc] > ForcePick
       IN pk' = [pk EXCEPT ![q].stale = stale,
                           ![q].at = IF stale THEN "cas" ELSE "node"]
    /\ UNCHANGED <<age, picked, probes, uneven, outsideP2C>>

\* atomic.CompareAndSwapInt64(&s.picked, 0, 1), and pc = upc when it swaps.
PickCAS(q) ==
    /\ pk[q].at = "cas"
    /\ IF picked = 0
       THEN /\ picked' = 1
            /\ pk' = [pk EXCEPT ![q].slot = "won", ![q].pc = pk[q].upc,
                                ![q].at = "store"]
       ELSE /\ pk' = [pk EXCEPT ![q].slot = "lost", ![q].at = "node"]
            /\ UNCHANGED picked
    /\ UNCHANGED <<age, probes, uneven, outsideP2C>>

\* atomic.StoreInt64(&s.picked, 0)
PickStore(q) ==
    /\ pk[q].at = "store"
    /\ picked' = 0
    /\ pk' = [pk EXCEPT ![q].at = "node"]
    /\ UNCHANGED <<age, probes, uneven, outsideP2C>>

\* done := pc.Pick(): the node's lastPick becomes now; Pick returns.
PickNode(q) ==
    /\ pk[q].at = "node"
    /\ age' = [age EXCEPT ![pk[q].pc] = 0]
    /\ probes' = IF pk[q].slot = "won" THEN Append(probes, 0) ELSE probes
    /\ pk' = [pk EXCEPT ![q] = IdlePick]
    /\ UNCHANGED <<picked, uneven, outsideP2C>>

\* One second passes.
Tick ==
    /\ age' = [n \in P2CNodes |-> Min(age[n] + 1, ForcePick + 1)]
    /\ probes' = LET older == [i \in DOMAIN probes |-> probes[i] + 1]
                 IN SelectSeq(older, LAMBDA t : t < ForcePick)
    /\ UNCHANGED <<picked, pk, uneven, outsideP2C>>

P2CInit ==
    /\ age = [n \in P2CNodes |-> ForcePick + 1]
    /\ picked = 0
    /\ pk = [q \in Pickers |-> IdlePick]
    /\ probes = <<>>
    /\ uneven = FALSE

(***************************************************************************)
(* Weighted round robin balancer (selector/wrr/wrr.go) over direct nodes,  *)
(* whose Weight() is the configured weight.  The nodes have distinct       *)
(* addresses, so a node's place in the list stands for its address.        *)
(***************************************************************************)
WrrNodeLists == UNION {[1..n -> 1..MaxWrrWeight] : n \in 1..MaxWrrNodes}

RECURSIVE SumWeights(_)
SumWeights(ws) == IF ws = <<>> THEN 0 ELSE ws[1] + SumWeights(Tail(ws))

\* A change of Settle for comparison: the selected node keeps its weight.
SettleKeeps(selectWeight, totalWeight) == selectWeight

\* p.currentWeight[selected.Address()] = selectWeight - totalWeight
Settle(selectWeight, totalWeight) == selectWeight - totalWeight

\* The loop of Balancer.Pick over nodes i.. of the list.
RECURSIVE WrrLoop(_, _, _)
WrrLoop(i, ws, st) ==
    IF i > Len(ws) THEN st
    ELSE LET cwt == st.cw[i] + ws[i]
             take == st.selected = 0 \/ st.selectWeight < cwt
         IN WrrLoop(i + 1, ws,
                [cw |-> [st.cw EXCEPT ![i] = cwt],
                 totalWeight |-> st.totalWeight + ws[i],
                 selected |-> IF take THEN i ELSE st.selected,
                 selectWeight |-> IF take THEN cwt ELSE st.selectWeight])

\* The nodes handed to every Pick of this balancer, with their weights.
WrrApply(ws) ==
    /\ wrrNodes = <<>>
    /\ wrrNodes' = ws
    /\ currentWeight' = [i \in DOMAIN ws |-> 0]
    /\ UNCHANGED <<wrrPicked, outsideWrr>>

\* Balancer.Pick, under its mutex.
WrrPick ==
    /\ wrrNodes # <<>>
    /\ LET st == WrrLoop(1, wrrNodes, [cw |-> currentWeight, totalWeight |-> 0,
                                       selected |-> 0, selectWeight |-> 0])
           all == Append(wrrPicked, st.selected)
       IN /\ currentWeight' = [st.cw EXCEPT ![st.selected] =
                                    Settle(st.selectWeight, st.totalWeight)]
          /\ wrrPicked' = IF Len(all) > SumWeights(wrrNodes) THEN Tail(all) ELSE all
    /\ UNCHANGED <<wrrNodes, outsideWrr>>

WrrInit ==
    /\ wrrNodes = <<>>
    /\ currentWeight = <<>>
    /\ wrrPicked = <<>>

(***************************************************************************)
(* EWMA statistics of one node (selector/node/ewma/node.go, the closure    *)
(* that Pick returns).  The clock counts half-lives of the moving average  *)
(* (tau * ln 2), and the ratio w = exp(-td / tau) is kept in steps of      *)
(* 1 / WScale.  The node was built long before the first Pick.             *)
(***************************************************************************)
SuccessMax == 1000

WScale == 4

ClockStart == 3

Doners == {"d1", "d2"}            \* concurrent calls, each a Pick and its Done

DoneErrors == {Nil, "deadline", "canceled", "unavailable", "badrequest"}

\* A change of Td for comparison: a negative difference is used as it is.
TdUnclamped(now, stamp) == now - stamp

\* td := now - stamp; if td < 0 { td = 0 }
Td(now, stamp) == IF now - stamp < 0 THEN 0 ELSE now - stamp

\* math.Exp(float64(-td) / float64(tau)), times WScale: 1 at td = 0, halved
\* by every half-life, 0 from the third on; above 1 for a negative td.
Decay(td) ==
    IF td < 0 THEN 2 * WScale
    ELSE IF td = 0 THEN WScale
    ELSE IF td = 1 THEN WScale \div 2
    ELSE IF td = 2 THEN WScale \div 4
    ELSE 0

\* uint64(float64(old)*w + float64(new)*(1.0-w))
Mix(old, new, w) == (old * w + new * (WScale - w)) \div WScale

\* The success sample of a Done: 0 for an error of the server's side.
SuccessOf(err) ==
    IF err \in {"deadline", "canceled", "unavailable"} THEN 0 ELSE SuccessMax

IdleDone == [at |-> "idle", start |-> 0, now |-> 0, err |-> Nil, w |-> 0,
             lag |-> 0, oldSuc |-> 0]

\* Node.Pick: start := time.Now()
EwmaPick(d) ==
    /\ dn[d].at = "idle"
    /\ dones < MaxDones
    /\ dn' = [dn EXCEPT ![d] = [IdleDone EXCEPT !.at = "picked", !.start = clock]]
    /\ UNCHANGED <<ew, clock, dones, outsideEwma>>

\* The Done closure is called with di.Err = err: now := time.Now()
EwmaDone(d, err) ==
    /\ dn[d].at = "picked"
    /\ dn' = [dn EXCEPT ![d].at = "swap", ![d].now = clock, ![d].err = err]
    /\ UNCHANGED <<ew, clock, dones, outsideEwma>>

\* stamp := atomic.SwapInt64(&n.stamp, now); td, w and the lag sample.
EwmaDoneSwap(d) ==
    /\ dn[d].at = "swap"
    /\ ew' = [ew EXCEPT !.stamp = dn[d].now]
    /\ dn' = [dn EXCEPT ![d].at = "lag",
                        ![d].w = Decay(Td(dn[d].now, ew.stamp)),
                        ![d].lag = IF dn[d].now - dn[d].start < 0 THEN 0
                                   ELSE dn[d].now - dn[d].start]
    /\ UNCHANGED <<clock, dones, outsideEwma>>

\* oldLag := load(&n.lag); if oldLag == 0 { w = 0.0 }; store(&n.lag, ...)
EwmaDoneLag(d) ==
    /\ dn[d].at = "lag"
    /\ LET w == IF ew.lag = 0 THEN 0 ELSE dn[d].w
       IN /\ ew' = [ew EXCEPT !.lag = Mix(ew.lag, dn[d].lag, w)]
          /\ dn' = [dn EXCEPT ![d].at = "load", ![d].w = w]
    /\ UNCHANGED <<clock, dones, outsideEwma>>

\* oldSuc := atomic.LoadUint64(&n.success)
EwmaDoneLoad(d) ==
    /\ dn[d].at = "load"
    /\ dn' = [dn EXCEPT ![d].at = "store", ![d].oldSuc = ew.success]
    /\ UNCHANGED <<ew, clock, dones, outsideEwma>>

\* atomic.StoreUint64(&n.success, success); the closure returns.
EwmaDoneStore(d) ==
    /\ dn[d].at = "store"
    /\ ew' = [ew EXCEPT !.success = Mix(dn[d].oldSuc, SuccessOf(dn[d].err), dn[d].w)]
    /\ dn' = [dn EXCEPT ![d] = [IdleDone EXCEPT !.at = "idle"]]
    /\ dones' = dones + 1
    /\ UNCHANGED <<clock, outsideEwma>>

\* One half-life passes.
EwmaTick ==
    /\ clock < ClockStart + MaxClock
    /\ clock' = clock + 1
    /\ UNCHANGED <<ew, dn, dones, outsideEwma>>

EwmaInit ==
    /\ ew = [stamp |-> 0, lag |-> 0, success |-> SuccessMax]
    /\ dn = [d \in Doners |-> IdleDone]
    /\ clock = ClockStart
    /\ dones = 0

(***************************************************************************)
(* Middleware chain (middleware.Chain).  A Handler is the list of the      *)
(* middlewares wrapped around the terminal handler "H", outermost first;   *)
(* a middleware runs its pre-hook, calls the handler it wraps and runs     *)
(* its post-hook.                                                          *)
(***************************************************************************)
Middlewares == {"A", "B", "C"}

MiddlewareLists == SeqsUpTo(Middlewares, MaxChain)

\* m[i](next): middleware mw wrapped around the handler next.
Wrap(mw, next) == <<mw>> \o next

\* A change of ChainLoop for comparison: the loop runs from the first
\* middleware to the last.
RECURSIVE ChainLoopForward(_, _, _)
ChainLoopForward(i, m, next) ==
    IF i < 1 THEN next
    ELSE ChainLoopForward(i - 1, m, Wrap(m[Len(m) + 1 - i], next))

\* for i := len(m) - 1; i >= 0; i-- { next = m[i](next) }
RECURSIVE ChainLoop(_, _, _)
ChainLoop(i, m, next) ==
    IF i < 1 THEN next ELSE ChainLoop(i - 1, m, Wrap(m[i], next))

\* Chain(m...)(H)
ChainBuild(m) ==
    /\ chain.at = "none"
    /\ chain' = [at |-> "down", arg |-> m, handler |-> ChainLoop(Len(m), m, <<"H">>),
                 depth |-> 0, log |-> <<>>]
    /\ UNCHANGED <<mt, outsideMw>>

\* The handler at the present depth is called: a middleware's pre-hook and
\* its call of the handler it wraps, or the terminal handler.
ChainCall ==
    /\ chain.at = "down"
    /\ LET h == chain.handler[chain.depth + 1]
       IN chain' = IF h = "H"
                   THEN [chain EXCEPT !.log = Append(@, <<"handle", h>>), !.at = "up"]
                   ELSE [chain EXCEPT !.log = Append(@, <<"pre", h>>),
                                      !.depth = @ + 1]
    /\ UNCHANGED <<mt, outsideMw>>

\* The handler called last returns: the post-hook of the middleware around
\* it, or the end of the call.
ChainReturn ==
    /\ chain.at = "up"
    /\ chain' = IF chain.depth = 0
                THEN [chain EXCEPT !.at = "done"]
                ELSE [chain EXCEPT !.log = Append(@, <<"post", chain.handler[chain.depth]>>),
                                   !.depth = @ - 1]
    /\ UNCHANGED <<mt, outsideMw>>

(***************************************************************************)
(* Middleware matcher (middleware/selector matcher).  A string is a        *)
(* sequence of letters; a selector is a path and whether "*" follows it.   *)
(***************************************************************************)
Letters == {1, 2}

Paths == SeqsUpTo(Letters, MaxPath)

Selectors == [path : Paths, star : BOOLEAN]

MatchLists == {<<"A">>, <<"B">>}

NoEntry == <<"none">>

\* strings.HasPrefix(s, prefix)
HasPrefix(s, prefix) == Len(prefix) <= Len(s) /\ SubSeq(s, 1, Len(prefix)) = prefix

\* s > t for strings: at the first difference, or t a proper prefix of s.
RECURSIVE StrGreater(_, _)
StrGreater(s, t) ==
    IF s = <<>> THEN FALSE
    ELSE IF t = <<>> THEN TRUE
    ELSE IF Head(s) # Head(t) THEN Head(s) > Head(t)
    ELSE StrGreater(Tail(s), Tail(t))

\* A change of SortPrefix for comparison: the list stays in the order of the
\* appends.
SortPrefixKeeps(ps) == ps

\* sort.Slice(m.prefix, func(i, j) { return m.prefix[i] > m.prefix[j] })
RECURSIVE SortPrefix(_)
SortPrefix(ps) ==
    IF ps = <<>> THEN <<>>
    ELSE LET top == CHOOSE i \in DOMAIN ps : \A j \in DOMAIN ps : ~StrGreater(ps[j], ps[i])
         IN <<ps[top]>> \o SortPrefix([k \in 1..(Len(ps) - 1) |->
                                          IF k < top THEN ps[k] ELSE ps[k + 1]])

\* matcher.Use
MatcherUse(ms) ==
    /\ mt.adds < MaxAdds
    /\ mt' = [mt EXCEPT !.defaults = ms, !.adds = @ + 1, !.asked = FALSE, !.op = <<>>, !.res = <<>>]
    /\ UNCHANGED <<chain, outsideMw>>

\* matcher.Add
MatcherAdd(sel, ms) ==
    /\ mt.adds < MaxAdds
    /\ mt' = [mt EXCEPT
                !.prefix = IF sel.star THEN SortPrefix(Append(@, sel.path)) ELSE @,
                !.matches = [@ EXCEPT ![sel.path] = ms],
                !.added = [@ EXCEPT ![sel] = ms],
                !.adds = @ + 1, !.asked = FALSE, !.op = <<>>, !.res = <<>>]
    /\ UNCHANGED <<chain, outsideMw>>

\* The loop of Match over m.prefix.
RECURSIVE FirstPrefix(_, _, _)
FirstPrefix(prefix, matches, operation) ==
    IF prefix = <<>> THEN <<>>
    ELSE IF HasPrefix(operation, Head(prefix)) THEN matches[Head(prefix)]
    ELSE FirstPrefix(Tail(prefix), matches, operation)

\* matcher.Match
Match(m, operation) ==
    IF m.matches[operation] # NoEntry
    THEN m.defaults \o m.matches[operation]
    ELSE m.defaults \o FirstPrefix(m.prefix, m.matches, operation)

MatcherMatch(operation) ==
    /\ mt' = [mt EXCEPT !.asked = TRUE, !.op = operation, !.res = Match(mt, operation)]
    /\ UNCHANGED <<chain, outsideMw>>

MwInit ==
    /\ chain = [at |-> "none", arg |-> <<>>, handler |-> <<>>, depth |-> 0, log |-> <<>>]
    /\ mt = [prefix |-> <<>>, defaults |-> <<>>,
             matches |-> [p \in Paths |-> NoEntry],
             added |-> [sel \in Selectors |-> NoEntry],
             adds |-> 0, asked |-> FALSE, op |-> <<>>, res |-> <<>>]

(***************************************************************************)
(* gRPC server interceptors (transport/grpc interceptor.go).  The list     *)
(* next is what the server's matcher returned for the operation.           *)
(***************************************************************************)
StreamMsgs == {"send", "recv"}

\* A call of handler h: each middleware's pre-hook, the handler it wraps,
\* its post-hook; h is the list of middlewares around the terminal handler.
RECURSIVE RunHandler(_)
RunHandler(h) ==
    IF Len(h) = 1 THEN <<<<"handle", h[1]>>>>
    ELSE <<<<"pre", h[1]>>>> \o RunHandler(Tail(h)) \o <<<<"post", h[1]>>>>

\* if next := Match(operation); len(next) > 0 { h = middleware.Chain(next...)(h) }
Chained(next, h) == IF Len(next) > 0 THEN ChainLoop(Len(next), next, h) ELSE h

\* unaryServerInterceptor: reply, err := h(ctx, req)
UnaryServerInterceptor(next) ==
    /\ rpc.at = "idle"
    /\ rpc' = [kind |-> "unary", at |-> "done", next |-> next, msgs |-> 0,
               log |-> RunHandler(Chained(next, <<"H">>))]
    /\ UNCHANGED outsideRpc

\* streamServerInterceptor: the value of middleware.Chain(next...)(h) is
\* not kept, and err := handler(srv, ws) calls the stream handler itself.
StreamServerInterceptor(next) ==
    /\ rpc.at = "idle"
    /\ rpc' = [kind |-> "stream", at |-> "handler", next |-> next, msgs |-> 0,
               log |-> RunHandler(<<"H">>)]
    /\ UNCHANGED outsideRpc

\* wrappedStream.SendMsg and wrappedStream.RecvMsg, called by the stream
\* handler.
WrappedStreamMsg(msg) ==
    /\ rpc.at = "handler"
    /\ rpc.msgs < MaxMsgs
    /\ rpc' = [rpc EXCEPT !.msgs = @ + 1,
                          !.log = @ \o RunHandler(Chained(rpc.next, <<msg>>))]
    /\ UNCHANGED outsideRpc

\* The stream handler returns.
StreamHandlerReturn ==
    /\ rpc.at = "handler"
    /\ rpc' = [rpc EXCEPT !.at = "done"]
    /\ UNCHANGED outsideRpc

RpcInit ==
    rpc = [kind |-> "none", at |-> "idle", next |-> <<>>, msgs |-> 0, log |-> <<>>]

(***************************************************************************)
(* Transport servers (transport/http server.go, transport/grpc server.go). *)
(* A URL is named by the number of the bind whose listener address         *)
(* host.Extract read.                                                      *)
(***************************************************************************)
ServerKinds == {"http", "grpc"}

\* A change of ListenNeeded for comparison: every call binds.
ListenAlways(s) == TRUE

\* if s.lis == nil
ListenNeeded(s) == ~s.lis

\* listenAndEndpoint: the server after the call and the error returned;
\* listenOk and extractOk are the outcomes of net.Listen and host.Extract.
ListenAndEndpoint(s, listenOk, extractOk) ==
    IF ListenNeeded(s) /\ ~listenOk
    THEN [s |-> [s EXCEPT !.err = "listen"], err |-> "listen"]
    ELSE LET s1 == IF ListenNeeded(s)
                   THEN [s EXCEPT !.lis = TRUE, !.binds = @ + 1]
                   ELSE s
         IN IF s1.endpoint = 0 /\ ~extractOk
            THEN [s |-> [s1 EXCEPT !.err = "extract"], err |-> "extract"]
            ELSE LET s2 == IF s1.endpoint = 0
                           THEN [s1 EXCEPT !.endpoint = s1.binds]
                           ELSE s1
                 IN [s |-> s2, err |-> s2.err]

\* NewServer
NewServer(kind) ==
    /\ sv.kind = "none"
    /\ sv' = [sv EXCEPT !.kind = kind]
    /\ UNCHANGED outsideSrv

\* Server.Endpoint
ServerEndpoint(listenOk, extractOk) ==
    /\ sv.kind # "none"
    /\ sv.calls < MaxCalls
    /\ LET r == ListenAndEndpoint(sv, listenOk, extractOk)
       IN sv' = [r.s EXCEPT !.calls = @ + 1,
                            !.returned = IF r.err = "none"
                                         THEN @ \cup {r.s.endpoint} ELSE @]
    /\ UNCHANGED outsideSrv

\* Server.Start up to the call of Serve
ServerStart(listenOk, extractOk) ==
    /\ sv.kind # "none"
    /\ sv.start = "no"
    /\ LET r == ListenAndEndpoint(sv, listenOk, extractOk)
       IN sv' = [r.s EXCEPT !.start = IF r.err = "none" THEN "serving" ELSE "failed"]
    /\ UNCHANGED outsideSrv

\* A request is accepted by the serving server.
RequestArrives ==
    /\ sv.start = "serving"
    /\ sv.stop = "no"
    /\ sv.inflight < MaxInflight
    /\ sv' = [sv EXCEPT !.inflight = @ + 1]
    /\ UNCHANGED outsideSrv

\* A request in flight finishes.
RequestFinishes ==
    /\ sv.inflight > 0
    /\ sv' = [sv EXCEPT !.inflight = @ - 1]
    /\ UNCHANGED outsideSrv

\* Server.Stop(ctx) is called.
ServerStop ==
    /\ sv.kind # "none"
    /\ sv.stop = "no"
    /\ sv' = [sv EXCEPT !.stop = "stopping"]
    /\ UNCHANGED outsideSrv

\* The deadline of the ctx given to Stop passes.
StopCtxDone ==
    /\ sv.stop = "stopping"
    /\ ~sv.ctxDone
    /\ sv' = [sv EXCEPT !.ctxDone = TRUE]
    /\ UNCHANGED outsideSrv

\* When the call Stop makes returns: http.Server.Shutdown(ctx) once no
\* request is in flight or ctx is done; grpc.Server.GracefulStop(), which
\* is given no ctx, once no request is in flight.
StopMayReturn(s) ==
    IF s.kind = "http" THEN s.inflight = 0 \/ s.ctxDone ELSE s.inflight = 0

\* Server.Stop returns.
StopReturn ==
    /\ sv.stop = "stopping"
    /\ StopMayReturn(sv)
    /\ sv' = [sv EXCEPT !.stop = "returned",
                        !.start = IF @ = "serving" THEN "closed" ELSE @]
    /\ UNCHANGED outsideSrv

SrvInit ==
    sv = [kind |-> "none", lis |-> FALSE, binds |-> 0, endpoint |-> 0, err |-> "none",
          calls |-> 0, returned |-> {}, start |-> "no", inflight |-> 0,
          stop |-> "no", ctxDone |-> FALSE]

(***************************************************************************)
(* registry.ServiceInstance.Equal.  Strings are named by numbers in their  *)
(* order; "" is the empty string, the value a Go map returns for a key it  *)
(* does not hold.                                                          *)
(***************************************************************************)
MetadataKeys == {"a", "b"}

MetadataValues == {"", "x"}

Metadatas == UNION {[ks -> MetadataValues] : ks \in SUBSET MetadataKeys}

ServiceInstances ==
    [id : {"i1", "i2"}, name : {"n1", "n2"}, version : {"v1", "v2"},
     endpoints : SeqsUpTo({1, 2}, MaxEndpoints), metadata : Metadatas]

\* sort.Strings
RECURSIVE SortStrings(_)
SortStrings(ss) ==
    IF ss = <<>> THEN <<>>
    ELSE LET low == CHOOSE i \in DOMAIN ss : \A j \in DOMAIN ss : ss[i] <= ss[j]
         IN <<ss[low]>> \o SortStrings([k \in 1..(Len(ss) - 1) |->
                                           IF k < low THEN ss[k] ELSE ss[k + 1]])

\* t.Metadata[k]
MapGet(md, k) == IF k \in DOMAIN md THEN md[k] ELSE ""

\* len(md)
MapLen(md) == Cardinality(DOMAIN md)

\* ServiceInstance.Equal for two instances that are not nil
Equal(i, t) ==
    IF Len(i.endpoints) # Len(t.endpoints) THEN FALSE
    ELSE IF \E j \in 1..Len(i.endpoints) :
                SortStrings(i.endpoints)[j] # SortStrings(t.endpoints)[j] THEN FALSE
    ELSE IF MapLen(i.metadata) # MapLen(t.metadata) THEN FALSE
    ELSE IF \E k \in DOMAIN i.metadata : i.metadata[k] # MapGet(t.metadata, k) THEN FALSE
    ELSE i.id = t.id /\ i.name = t.name /\ i.version = t.version

\* A call i.Equal(o); both endpoint lists are left sorted.
EqualCall(i, o) ==
    /\ ~eq.called
    /\ eq' = [called |-> TRUE,
              i |-> [i EXCEPT !.endpoints = SortStrings(@)],
              o |-> [o EXCEPT !.endpoints = SortStrings(@)],
              res |-> Equal(i, o)]
    /\ UNCHANGED outsideEq

EqInit ==
    eq = [called |-> FALSE, i |-> <<>>, o |-> <<>>, res |-> FALSE]

(***************************************************************************)
(* errors.Error.Is.  An error is a framework error, of type Error, or a   *)
(* plain error of another type; its cause is nothing, a plain error or a   *)
(* framework error.                                                        *)
(***************************************************************************)
ErrorCodes == {400, 500}

ErrorReasons == {"r1", "r2"}

NoCause == [kind |-> "none", code |-> 0, reason |-> ""]

Causes ==
    {NoCause, [kind |-> "plain", code |-> 0, reason |-> ""]}
        \cup [kind : {"kratos"}, code : ErrorCodes, reason : ErrorReasons]

\* The values of type *Error.
FrameworkErrors ==
    [kind : {"kratos"}, code : ErrorCodes, reason : ErrorReasons,
     message : {"m1", "m2"}, metadata : {"none", "md"}, cause : Causes]

\* Errors of other types, wrapping nothing or a framework error.
PlainErrors ==
    [kind : {"plain"}, code : {0}, reason : {""}, message : {"m1"},
     metadata : {"none"}, cause : Causes \ {[kind |-> "plain", code |-> 0, reason |-> ""]}]

\* errors.As(err, &se): the first *Error in the chain of err.
As(err) ==
    IF err.kind = "kratos" THEN [ok |-> TRUE, code |-> err.code, reason |-> err.reason]
    ELSE IF err.cause.kind = "kratos"
         THEN [ok |-> TRUE, code |-> err.cause.code, reason |-> err.cause.reason]
         ELSE [ok |-> FALSE, code |-> 0, reason |-> ""]

\* A change of SameStatus for comparison: the code alone is compared.
SameCode(se, e) == se.code = e.code

\* se.Code == e.Code && se.Reason == e.Reason
SameStatus(se, e) == se.code = e.code /\ se.reason = e.reason

\* Error.Is
Is(e, err) ==
    LET se == As(err) IN IF se.ok THEN SameStatus(se, e) ELSE FALSE

\* A call e.Is(err).
IsCall(e, err) ==
    /\ er' = [called |-> TRUE, e |-> e, err |-> err, res |-> Is(e, err)]
    /\ UNCHANGED outsideErr

ErrInit ==
    er = [called |-> FALSE, e |-> NoCause, err |-> NoCause, res |-> FALSE]

(***************************************************************************)
(* The in-flight ring of one EWMA node (selector/node/ewma/node.go, Pick   *)
(* and the closure it returns).  owner records, for a slot that is not 0,  *)
(* the caller whose Pick wrote it.                                         *)
(***************************************************************************)
RingCallers == {"k1", "k2", "k3"}

Slots == 0..(RingSlots - 1)

IdleRingCall == [at |-> "idle", slot |-> 0, start |-> 0, swapped |-> FALSE]

\* A change of SlotFree for comparison: the slot is written whatever it
\* holds.
SlotAny(v) == TRUE

\* atomic.CompareAndSwapInt64(&n.inflights[slot], 0, start) compares with 0.
SlotFree(v) == v = 0

\* Node.Pick: start := time.Now(); reqs := atomic.AddInt64(&n.reqs, 1);
\* slot := reqs % 200
RingPickAdd(k) ==
    /\ ring.k[k].at = "idle"
    /\ ring.reqs < MaxRingPicks
    /\ ring' = [ring EXCEPT !.reqs = @ + 1,
                            !.k[k] = [at |-> "cas", slot |-> (ring.reqs + 1) % RingSlots,
                                      start |-> ring.clock, swapped |-> FALSE]]
    /\ UNCHANGED outsideRing

\* Node.Pick: swapped := CompareAndSwap(&n.inflights[slot], 0, start), and
\* the return of the closure.
RingPickCAS(k) ==
    /\ ring.k[k].at = "cas"
    /\ LET c == ring.k[k]
           swapped == SlotFree(ring.inflights[c.slot])
       IN ring' = [ring EXCEPT
                     !.inflights[c.slot] = IF swapped THEN c.start ELSE @,
                     !.owner[c.slot] = IF swapped THEN k ELSE @,
                     !.k[k] = [c EXCEPT !.at = "out", !.swapped = swapped]]
    /\ UNCHANGED outsideRing

\* The closure: if swapped { CompareAndSwap(&n.inflights[slot], start, 0) }
RingDone(k) ==
    /\ ring.k[k].at = "out"
    /\ LET c == ring.k[k]
           clears == c.swapped /\ ring.inflights[c.slot] = c.start
       IN ring' = [ring EXCEPT
                     !.inflights[c.slot] = IF clears THEN 0 ELSE @,
                     !.owner[c.slot] = IF clears THEN "none" ELSE @,
                     !.k[k] = IdleRingCall]
    /\ UNCHANGED outsideRing

\* time.Now() moves on; two Picks may read the same time.
RingTick ==
    /\ ring.clock < MaxRingClock
    /\ ring' = [ring EXCEPT !.clock = @ + 1]
    /\ UNCHANGED outsideRing

RingInit ==
    ring = [reqs |-> 0, inflights |-> [s \in Slots |-> 0],
            owner |-> [s \in Slots |-> "none"], clock |-> 1,
            k |-> [c \in RingCallers |-> IdleRingCall]]

(***************************************************************************)
(* The Done closures of one EWMA node step by step (node.go 165-189): the  *)
(* lag and the success are each loaded, mixed and stored.  The ratio w is  *)
(* what the closure computed from the stamp it swapped.  A round is a      *)
(* stretch of time in which some closure is running; base is the node's    *)
(* statistics when the round began.                                        *)
(***************************************************************************)
Racers == {"g1", "g2"}

LagSamples == {1, 2}

\* w0 is the ratio computed from the stamp, w the one used after the lag
\* was loaded.
IdleRacer ==
    [at |-> "idle", w0 |-> 0, w |-> 0, lag |-> 0, suc |-> 0, oldLag |-> 0, oldSuc |-> 0]

\* The closure up to w and the lag sample: lag := now - start.
RaceDone(g, w, lag, err) ==
    /\ rc.d[g].at = "idle"
    /\ g \notin rc.round \/ \A h \in Racers : rc.d[h].at = "idle"
    /\ IF \A h \in Racers : rc.d[h].at = "idle"
       THEN /\ rc.rounds < MaxRounds
            /\ rc' = [rc EXCEPT !.base = [lag |-> rc.lag, success |-> rc.success],
                                !.round = {g}, !.rounds = @ + 1,
                                !.d[g] = [IdleRacer EXCEPT !.at = "lagload", !.w0 = w, !.w = w,
                                              !.lag = lag, !.suc = SuccessOf(err)]]
       ELSE rc' = [rc EXCEPT !.round = @ \cup {g},
                             !.d[g] = [IdleRacer EXCEPT !.at = "lagload", !.w0 = w, !.w = w,
                                           !.lag = lag, !.suc = SuccessOf(err)]]
    /\ UNCHANGED outsideRace

\* oldLag := atomic.LoadInt64(&n.lag); if oldLag == 0 { w = 0.0 }
RaceLagLoad(g) ==
    /\ rc.d[g].at = "lagload"
    /\ rc' = [rc EXCEPT !.d[g].at = "lagstore", !.d[g].oldLag = rc.lag,
                        !.d[g].w = IF rc.lag = 0 THEN 0 ELSE @]
    /\ UNCHANGED outsideRace

\* atomic.StoreInt64(&n.lag, int64(float64(oldLag)*w + float64(lag)*(1.0-w)))
RaceLagStore(g) ==
    /\ rc.d[g].at = "lagstore"
    /\ rc' = [rc EXCEPT !.lag = Mix(rc.d[g].oldLag, rc.d[g].lag, rc.d[g].w),
                        !.d[g].at = "sucload"]
    /\ UNCHANGED outsideRace

\* oldSuc := atomic.LoadUint64(&n.success)
RaceSucLoad(g) ==
    /\ rc.d[g].at = "sucload"
    /\ rc' = [rc EXCEPT !.d[g].at = "sucstore", !.d[g].oldSuc = rc.success]
    /\ UNCHANGED outsideRace

\* atomic.StoreUint64(&n.success, ...); the closure returns.
RaceSucStore(g) ==
    /\ rc.d[g].at = "sucstore"
    /\ rc' = [rc EXCEPT !.success = Mix(rc.d[g].oldSuc, rc.d[g].suc, rc.d[g].w),
                        !.d[g].at = "idle"]
    /\ UNCHANGED outsideRace

RaceInit ==
    rc = [lag |-> 0, success |-> SuccessMax, base |-> [lag |-> 0, success |-> SuccessMax],
          round |-> {}, rounds |-> 0, d |-> [g \in Racers |-> IdleRacer]]

(***************************************************************************)
(* The error classes of the Done closure.  An error is its chain, the      *)
(* outermost error first: fmt.Errorf("%w") wrappers and errors of type     *)
(* Error with a cause around one innermost error.  An error that is no     *)
(* Error and carries no status has code 500 (FromError, UnknownCode).      *)
(***************************************************************************)
ErrLeaves == {"deadline", "canceled", "netclosed", "plain", "e503", "e504", "e500"}

ErrWrappers == {"wrap", "e503", "e504", "e500"}

ErrChains ==
    UNION {{ws \o <<l>> : ws \in [1..k -> ErrWrappers], l \in ErrLeaves} : k \in 0..MaxWrap}

ErrHandlers == {"nil", "all", "none"}

\* di.Err == nil
NoError == <<>>

\* errors.Is(err, target): some error of err's chain equals target.
ErrorsIs(err, target) ==
    \E i \in 1..Len(err) : SubSeq(err, i, Len(err)) = target

\* errors.As(di.Err, &netErr): some error of the chain has Timeout and
\* Temporary; context.DeadlineExceeded and net.ErrClosed have them.
AsNetError(err) ==
    \E i \in 1..Len(err) : err[i] \in {"deadline", "netclosed"}

\* errors.Code: the code of the first Error of the chain, 500 without one.
Code(err) ==
    LET at == {i \in 1..Len(err) : err[i] \in {"e503", "e504", "e500"}}
    IN  IF at = {} THEN 500
        ELSE LET i == CHOOSE j \in at : \A k \in at : j <= k
             IN  CASE err[i] = "e503" -> 503
                   [] err[i] = "e504" -> 504
                   [] OTHER -> 500

IsServiceUnavailable(err) == Code(err) = 503

IsGatewayTimeout(err) == Code(err) = 504

\* n.errHandler != nil && n.errHandler(di.Err)
ErrHandlerAccepts(h, err) == h = "all"

\* The success sample of the Done closure for di.Err and the node's ErrHandler.
SuccessSample(h, err) ==
    IF err = NoError THEN SuccessMax
    ELSE IF \/ ErrHandlerAccepts(h, err)
            \/ ErrorsIs(<<"deadline">>, err)
            \/ ErrorsIs(<<"canceled">>, err)
            \/ IsServiceUnavailable(err)
            \/ IsGatewayTimeout(err)
            \/ AsNetError(err)
         THEN 0
         ELSE SuccessMax

ClassifyDone(h, err) ==
    /\ ~cf.called
    /\ cf' = [called |-> TRUE, handler |-> h, err |-> err, sample |-> SuccessSample(h, err)]
    /\ UNCHANGED outsideClassify

ClassifyInit ==
    cf = [called |-> FALSE, handler |-> "nil", err |-> NoError, sample |-> SuccessMax]

(***************************************************************************)
(* prePick on node lists of every length from 2 on: the list of one run    *)
(* keeps its length n, and the pairs of nodes drawn so far are recorded.   *)
(* Node i + 1 is the node at index i.                                      *)
(***************************************************************************)
ListLens == 2..MaxDrawNodes

\* prePick(nodes) with len(nodes) = n, a = r.Intn(n), b = r.Intn(n - 1)
PrePickCall(n, a, b) ==
    /\ dr.n \in {0, n}
    /\ a \in 0..(n - 1)
    /\ b \in 0..(n - 2)
    /\ LET drawn == PrePick(a, b)
       IN dr' = [n |-> n, last |-> <<drawn.nodeA, drawn.nodeB>>,
                 seen |-> dr.seen \cup {<<drawn.nodeA, drawn.nodeB>>}]
    /\ UNCHANGED outsideDraw

DrawInit ==
    dr = [n |-> 0, last |-> <<0, 0>>, seen |-> {}]

(***************************************************************************)
(* Merged context (internal/context/context.go): two parents that are not  *)
(* done when Merge returns, the goroutine of wait, and callers of Err.     *)
(* once is the state of doneOnce; a finish that finds it running waits.    *)
(***************************************************************************)
ErrCallers == {"e1", "e2"}

MergeProcs == ErrCallers \cup {"wait"}

ParentErrors == {"canceled", "deadline"}

IdleMerge == [at |-> "idle", err |-> Nil, ret |-> Nil, closed |-> FALSE]

\* The errors of the cases of the select of wait and of Err that are ready.
Ready ==
    {mc.parent[i] : i \in {j \in {1, 2} : mc.parent[j] # Nil}}
        \cup (IF mc.cancelCh THEN {"canceled"} ELSE {})

\* A parent is cancelled or reaches its deadline.
ParentDone(i, err) ==
    /\ mc.parent[i] = Nil
    /\ mc' = [mc EXCEPT !.parent[i] = err]
    /\ UNCHANGED outsideMerge

\* mergeCtx.cancel: cancelOnce.Do(close(mc.cancelCh))
MergeCancel ==
    /\ ~mc.cancelCh
    /\ mc' = [mc EXCEPT !.cancelCh = TRUE]
    /\ UNCHANGED outsideMerge

\* mergeCtx.wait: the select has a ready case.
WaitSelect ==
    /\ mc.g["wait"].at = "select"
    /\ \E err \in Ready : mc' = [mc EXCEPT !.g["wait"].at = "finish", !.g["wait"].err = err]
    /\ UNCHANGED outsideMerge

\* A call of Err begins.
ErrCall(e) ==
    /\ mc.g[e].at = "idle"
    /\ mc' = [mc EXCEPT !.g[e].at = "mark"]
    /\ UNCHANGED outsideMerge

\* if atomic.LoadUint32(&mc.doneMark) != 0
ErrLoadMark(e) ==
    /\ mc.g[e].at = "mark"
    /\ mc' = [mc EXCEPT !.g[e].at = IF mc.doneMark # 0 THEN "fast" ELSE "select"]
    /\ UNCHANGED outsideMerge

\* return mc.doneErr
ErrReturnDoneErr(e) ==
    /\ mc.g[e].at = "fast"
    /\ mc' = [mc EXCEPT !.g[e].at = "returned", !.g[e].ret = mc.doneErr,
                        !.g[e].closed = mc.done]
    /\ UNCHANGED outsideMerge

\* The select of Err: a ready case, or default: return nil.
ErrSelect(e) ==
    /\ mc.g[e].at = "select"
    /\ IF Ready = {}
       THEN mc' = [mc EXCEPT !.g[e].at = "returned", !.g[e].ret = Nil,
                             !.g[e].closed = mc.done]
       ELSE \E err \in Ready : mc' = [mc EXCEPT !.g[e].at = "finish", !.g[e].err = err]
    /\ UNCHANGED outsideMerge

\* finish: mc.doneOnce.Do, entered by the first caller, passed by those
\* that come after the first has returned from it.
FinishOnce(p) ==
    /\ mc.g[p].at = "finish"
    /\ mc.once # "running"
    /\ mc' = IF mc.once = "free"
             THEN [mc EXCEPT !.once = "running", !.g[p].at = "setErr"]
             ELSE [mc EXCEPT !.g[p].at = "finret"]
    /\ UNCHANGED outsideMerge

\* mc.doneErr = err
FinishSetErr(p) ==
    /\ mc.g[p].at = "setErr"
    /\ mc' = [mc EXCEPT !.doneErr = mc.g[p].err, !.g[p].at = "setMark"]
    /\ UNCHANGED outsideMerge

\* atomic.StoreUint32(&mc.doneMark, 1)
FinishSetMark(p) ==
    /\ mc.g[p].at = "setMark"
    /\ mc' = [mc EXCEPT !.doneMark = 1, !.g[p].at = "close"]
    /\ UNCHANGED outsideMerge

\* close(mc.done), and the end of doneOnce.Do
FinishClose(p) ==
    /\ mc.g[p].at = "close"
    /\ mc' = [mc EXCEPT !.done = TRUE, !.once = "done", !.g[p].at = "finret"]
    /\ UNCHANGED outsideMerge

\* return mc.doneErr: wait drops it and ends, Err returns it.
FinishReturn(p) ==
    /\ mc.g[p].at = "finret"
    /\ mc' = [mc EXCEPT !.g[p].at = IF p = "wait" THEN "ended" ELSE "returned",
                        !.g[p].ret = mc.doneErr, !.g[p].closed = mc.done]
    /\ UNCHANGED outsideMerge

\* The caller of Err takes the result.
ErrTaken(e) ==
    /\ mc.g[e].at = "returned"
    /\ mc' = [mc EXCEPT !.g[e] = IdleMerge]
    /\ UNCHANGED outsideMerge

MergeInit ==
    mc = [parent |-> [i \in {1, 2} |-> Nil], cancelCh |-> FALSE,
          doneMark |-> 0, doneErr |-> Nil, done |-> FALSE, once |-> "free",
          g |-> [p \in MergeProcs |-> IF p = "wait" THEN [IdleMerge EXCEPT !.at = "select"]
                                                    ELSE IdleMerge]]

(***************************************************************************)
(* Config reader under the watch goroutines of two sources (config.watch,  *)
(* reader.Merge).  Each source owns one key; a change gives it a value.    *)
(***************************************************************************)
Sources == {"s1", "s2"}

ConfigValues == 1..MaxConfigValue

KeyOf(s) == IF s = "s1" THEN "a" ELSE "b"

ConfigKeys == {KeyOf(s) : s \in Sources}

\* The merge of options: mergo.Map(dst, src, mergo.WithOverride)
MergeOverride(dst, key, val) == [dst EXCEPT ![key] = val]

IdleWatch == [at |-> "idle", val |-> 0, merged |-> [k \in ConfigKeys |-> 0], last |-> 0]

\* config.watch: w.Next() delivers a change of the source's key.
ConfigNext(s, val) ==
    /\ cfg.g[s].at = "idle"
    /\ cfg' = [cfg EXCEPT !.g[s].at = "clone", !.g[s].val = val]
    /\ UNCHANGED outsideConfig

\* reader.Merge: merged := r.cloneMap() under the lock, then the decoding
\* and the merge of the change into the clone.
MergeClone(s) ==
    /\ cfg.g[s].at = "clone"
    /\ cfg' = [cfg EXCEPT !.g[s].at = "store",
                          !.g[s].merged = MergeOverride(cfg.values, KeyOf(s), cfg.g[s].val)]
    /\ UNCHANGED outsideConfig

\* reader.Merge: r.values = merged under the lock, and the return.
MergeStore(s) ==
    /\ cfg.g[s].at = "store"
    /\ cfg' = [cfg EXCEPT !.values = cfg.g[s].merged,
                          !.g[s].at = "resolve", !.g[s].last = cfg.g[s].val]
    /\ UNCHANGED outsideConfig

\* config.watch after Merge: Resolve and the refresh of the cached values;
\* the values hold no placeholder, Resolve leaves them as they are.
WatchResolve(s) ==
    /\ cfg.g[s].at = "resolve"
    /\ cfg' = [cfg EXCEPT !.g[s].at = "idle", !.g[s].merged = IdleWatch.merged,
                          !.g[s].val = 0]
    /\ UNCHANGED outsideConfig

ConfigInit ==
    cfg = [values |-> [k \in ConfigKeys |-> 0], g |-> [s \in Sources |-> IdleWatch]]

(***************************************************************************)
(* The WRR balancer of a Default selector across Apply calls.  The         *)
(* selector's builder builds the Balancer once; Apply stores a new node    *)
(* list and Pick is handed the stored one.  currentWeight is keyed by      *)
(* address: keys are the addresses with an entry, cw their values.         *)
(***************************************************************************)
WrrAddrs == 1..MaxWrrAddrs

\* The weight of the direct node of an address.
AddrWeight(a) == a

\* The node lists handed to Apply: the addresses of a set, in order.
RECURSIVE AddrList(_)
AddrList(S) ==
    IF S = {} THEN <<>>
    ELSE LET a == CHOOSE x \in S : \A y \in S : x <= y
         IN <<a>> \o AddrList(S \ {a})

\* Default.Apply: d.nodes.Store(weightedNodes); the Balancer is not told.
WrrAddrApply(S) ==
    /\ wra.applies < MaxWrrApplies
    /\ wra' = [wra EXCEPT !.nodes = AddrList(S), !.applies = @ + 1]
    /\ UNCHANGED outsideWrrAddr

\* Balancer.Pick over the stored list: p.currentWeight[node.Address()] is
\* read (0 without an entry) and written for every node of the list.
WrrAddrPick ==
    /\ wra.nodes # <<>>
    /\ wra.picks < MaxWrrAddrPicks
    /\ LET ws == [i \in DOMAIN wra.nodes |-> AddrWeight(wra.nodes[i])]
           st == WrrLoop(1, ws, [cw |-> [i \in DOMAIN wra.nodes |-> wra.cw[wra.nodes[i]]],
                                 totalWeight |-> 0, selected |-> 0, selectWeight |-> 0])
           cw == [st.cw EXCEPT ![st.selected] = Settle(st.selectWeight, st.totalWeight)]
       IN wra' = [wra EXCEPT
                    !.keys = @ \cup SeqRange(wra.nodes),
                    !.cw = [a \in WrrAddrs |->
                              IF a \in SeqRange(wra.nodes)
                              THEN cw[CHOOSE i \in DOMAIN wra.nodes : wra.nodes[i] = a]
                              ELSE wra.cw[a]],
                    !.picks = @ + 1]
    /\ UNCHANGED outsideWrrAddr

\* Builder.Build: &Balancer{currentWeight: make(map[string]float64)}
WrrAddrInit ==
    wra = [nodes |-> <<>>, keys |-> {}, cw |-> [a \in WrrAddrs |-> 0],
          applies |-> 0, picks |-> 0]

Init ==
    SelInit /\ ResInit /\ AppInit /\ P2CInit /\ WrrInit /\ EwmaInit /\ MwInit /\ RpcInit /\ SrvInit /\ EqInit /\ ErrInit /\ RingInit /\ RaceInit /\ ClassifyInit /\ DrawInit /\ MergeInit /\ ConfigInit /\ WrrAddrInit


\* The selector under concurrent Apply and Select, with every filter list;
\* the round trips of the calls succeed.
NextSelector ==
    \/ \E r \in Appliers, nodes \in ApplyInputs : ApplyBuild(r, nodes)
    \/ \E r \in Appliers : ApplyStore(r)
    \/ \E p \in Clients : InvokeBegin(p)
    \/ \E p \in Clients : SelectLoad(p)
    \/ \E p \in Clients, fs \in FilterLists : SelectPick(p, fs)
    \/ \E p \in Clients : DoSelected(p)
    \/ \E p \in Clients : RoundTrip(p, Nil)
    \/ \E p \in Clients : DoDone(p)
    \/ \E p \in Clients : InvokeDecode(p, Nil)
    \/ \E p \in Clients : InvokeReturn(p)

SpecSelector == Init /\ [][NextSelector]_vars

\* The HTTP client's calls with every outcome of the round trip, against a
\* selector that is re-applied meanwhile; the calls give no node filters.
NextClient ==
    \/ \E r \in Appliers, nodes \in ApplyInputs : ApplyBuild(r, nodes)
    \/ \E r \in Appliers : ApplyStore(r)
    \/ \E p \in Clients : InvokeBegin(p)
    \/ \E p \in Clients : SelectLoad(p)
    \/ \E p \in Clients : SelectPick(p, <<>>)
    \/ \E p \in Clients : DoSelected(p)
    \/ \E p \in Clients, e \in RoundTripErrors : RoundTrip(p, e)
    \/ \E p \in Clients : DoDone(p)
    \/ \E p \in Clients, e \in DecodeErrors : InvokeDecode(p, e)
    \/ \E p \in Clients : InvokeReturn(p)

SpecClient == Init /\ [][NextClient]_vars

\* The resolvers feeding the selector and the gRPC connection state, with
\* clients selecting meanwhile.
NextResolver ==
    \/ \E kind \in {"http", "grpc"}, insecure \in BOOLEAN, subsetSize \in 0..MaxSubset :
            NewResolver(kind, insecure, subsetSize)
    \/ HttpResolverUpdate
    \/ ApplyStore("r1")
    \/ HttpUpdateReturn
    \/ GrpcResolverUpdate
    \/ \E err \in NextErrors : WatchNextError(err)
    \/ WatchWake
    \/ BlockSelect
    \/ CtxDone
    \/ GrpcWatchCtxDone
    \/ InvokeBegin("c1")
    \/ SelectLoad("c1")
    \/ SelectPick("c1", <<>>)
    \/ DoSelected("c1")
    \/ RoundTrip("c1", Nil)
    \/ DoDone("c1")
    \/ InvokeDecode("c1", Nil)
    \/ InvokeReturn("c1")

SpecResolver == Init /\ [][NextResolver]_vars

\* The application: options, Run, and Stop calls arriving at any time.
NextApp ==
    \/ BeforeStart
    \/ BeforeStop
    \/ AfterStart
    \/ AfterStop
    \/ Registrar
    \/ RunBegin
    \/ \E ok \in BOOLEAN : RunBeforeStart(ok)
    \/ \E ok \in BOOLEAN : RunServers(ok)
    \/ \E ok \in BOOLEAN : RunRegister(ok)
    \/ \E ok \in BOOLEAN : RunAfterStart(ok)
    \/ RunReturn
    \/ \E c \in StopCallers : Stop(c)
    \/ StopBeforeStop
    \/ StopDeregister
    \/ StopServers
    \/ StopAfterStop

SpecApp == Init /\ [][NextApp]_vars

\* The P2C balancer under concurrent Picks over a list of two nodes
\* (len(nodes) = 2: a is 0 or 1, b is 0).
NextP2C ==
    \/ \E q \in Pickers, a \in 0..1, b \in 0..0,
          wa \in 1..MaxWeight, wb \in 1..MaxWeight : BalancerPick(q, a, b, wa, wb)
    \/ \E q \in Pickers : PickElapsed(q)
    \/ \E q \in Pickers : PickCAS(q)
    \/ \E q \in Pickers : PickStore(q)
    \/ \E q \in Pickers : PickNode(q)
    \/ Tick

SpecP2C == Init /\ [][NextP2C]_vars

\* The draw of one pair of indices, with whatever weights.
Draw(a, b) == \E wa \in 1..MaxWeight, wb \in 1..MaxWeight : BalancerPick("q1", a, b, wa, wb)

\* A sequence of Picks, one after the other.
NextP2CFair ==
    \/ \E a \in 0..(MaxP2CNodes - 1), b \in 0..(MaxP2CNodes - 2) : Draw(a, b)
    \/ PickElapsed("q1")
    \/ PickCAS("q1")
    \/ PickStore("q1")
    \/ PickNode("q1")
    \/ Tick

\* Every Pick runs to its end, every pair of indices keeps being drawn,
\* and time keeps passing.
SpecP2CFair ==
    /\ Init
    /\ [][NextP2CFair]_vars
    /\ \A a \in 0..(MaxP2CNodes - 1), b \in 0..(MaxP2CNodes - 2) : SF_vars(Draw(a, b))
    /\ WF_vars(PickElapsed("q1"))
    /\ WF_vars(PickCAS("q1"))
    /\ WF_vars(PickStore("q1"))
    /\ WF_vars(PickNode("q1"))
    /\ WF_vars(Tick)

\* The weighted round robin balancer over a fixed list of nodes.
NextWrr ==
    \/ \E ws \in WrrNodeLists : WrrApply(ws)
    \/ WrrPick

SpecWrr == Init /\ [][NextWrr]_vars

\* One EWMA node under concurrent Picks and Dones.
NextEwma ==
    \/ \E d \in Doners : EwmaPick(d)
    \/ \E d \in Doners, err \in DoneErrors : EwmaDone(d, err)
    \/ \E d \in Doners : EwmaDoneSwap(d)
    \/ \E d \in Doners : EwmaDoneLag(d)
    \/ \E d \in Doners : EwmaDoneLoad(d)
    \/ \E d \in Doners : EwmaDoneStore(d)
    \/ EwmaTick

SpecEwma == Init /\ [][NextEwma]_vars

\* One call through a chain of middlewares.
NextChain ==
    \/ \E m \in MiddlewareLists : ChainBuild(m)
    \/ ChainCall
    \/ ChainReturn

SpecChain == Init /\ [][NextChain]_vars

\* A matcher that is set up and asked.
NextMatcher ==
    \/ \E ms \in {<<>>, <<"D">>} : MatcherUse(ms)
    \/ \E sel \in Selectors, ms \in MatchLists : MatcherAdd(sel, ms)
    \/ \E operation \in Paths : MatcherMatch(operation)

SpecMatcher == Init /\ [][NextMatcher]_vars

\* One inbound RPC through the server's interceptors.
NextRpc ==
    \/ \E next \in MiddlewareLists : UnaryServerInterceptor(next)
    \/ \E next \in MiddlewareLists : StreamServerInterceptor(next)
    \/ \E msg \in StreamMsgs : WrappedStreamMsg(msg)
    \/ StreamHandlerReturn

SpecRpc == Init /\ [][NextRpc]_vars

\* One transport server: Endpoint and Start calls, requests, Stop.
NextServer ==
    \/ \E kind \in ServerKinds : NewServer(kind)
    \/ \E listenOk, extractOk \in BOOLEAN : ServerEndpoint(listenOk, extractOk)
    \/ \E listenOk, extractOk \in BOOLEAN : ServerStart(listenOk, extractOk)
    \/ RequestArrives
    \/ RequestFinishes
    \/ ServerStop
    \/ StopCtxDone
    \/ StopReturn

\* Stop returns when the call it makes may return; nothing obliges a
\* request in flight to finish.
SpecServer == Init /\ [][NextServer]_vars /\ WF_vars(StopReturn)

\* The calls of one HTTP client with node filters, every outcome of the
\* round trip and repeated calls of the handler, against a selector that
\* is re-applied meanwhile.
NextInvoke ==
    \/ \E nodes \in ApplyInputs : ApplyBuild("r1", nodes)
    \/ ApplyStore("r1")
    \/ InvokeBegin("c1")
    \/ SelectLoad("c1")
    \/ \E fs \in FilterLists : SelectPick("c1", fs)
    \/ DoSelected("c1")
    \/ \E e \in RoundTripErrors : RoundTrip("c1", e)
    \/ DoDone("c1")
    \/ \E e \in DecodeErrors : InvokeDecode("c1", e)
    \/ InvokeAgain("c1")
    \/ InvokeReturn("c1")

SpecInvoke == Init /\ [][NextInvoke]_vars

\* One call of Equal on two service instances.
NextEqual ==
    /\ ~eq.called
    /\ \E i, o \in ServiceInstances : EqualCall(i, o)

SpecEqual == Init /\ [][NextEqual]_vars

\* One call of Is on a framework error, with any error as its argument.
NextIs ==
    /\ ~er.called
    /\ \E e \in FrameworkErrors, err \in FrameworkErrors \cup PlainErrors : IsCall(e, err)

SpecIs == Init /\ [][NextIs]_vars

\* Concurrent Picks and Dones on the ring of one node.
NextRing ==
    \/ \E k \in RingCallers : RingPickAdd(k)
    \/ \E k \in RingCallers : RingPickCAS(k)
    \/ \E k \in RingCallers : RingDone(k)
    \/ RingTick

SpecRing == Init /\ [][NextRing]_vars

\* Done closures of one node, overlapping or not.
NextRace ==
    \/ \E g \in Racers, w \in {0, WScale \div 2, WScale}, lag \in LagSamples,
          err \in {Nil, "unavailable"} : RaceDone(g, w, lag, err)
    \/ \E g \in Racers : RaceLagLoad(g)
    \/ \E g \in Racers : RaceLagStore(g)
    \/ \E g \in Racers : RaceSucLoad(g)
    \/ \E g \in Racers : RaceSucStore(g)

SpecRace == Init /\ [][NextRace]_vars

NextClassify ==
    /\ ~cf.called
    /\ \E h \in ErrHandlers, err \in ErrChains \cup {NoError} : ClassifyDone(h, err)

SpecClassify == Init /\ [][NextClassify]_vars

NextDraw ==
    \E n \in ListLens, a \in 0..(MaxDrawNodes - 1), b \in 0..(MaxDrawNodes - 2) : PrePickCall(n, a, b)

SpecDraw == Init /\ [][NextDraw]_vars

\* A resolver from its construction to after its Close: the Watcher
\* delivers updates and errors until it is stopped, and errors afterwards.
NextClose ==
    \/ \E kind \in {"http", "grpc"}, insecure \in BOOLEAN, subsetSize \in 0..MaxSubset :
            NewResolver(kind, insecure, subsetSize)
    \/ ~wt.stopped /\ HttpResolverUpdate
    \/ ApplyStore("r1")
    \/ HttpUpdateReturn
    \/ ~wt.stopped /\ GrpcResolverUpdate
    \/ ~wt.stopped /\ \E err \in NextErrors : WatchNextError(err)
    \/ WatchWake
    \/ BlockSelect
    \/ ResolverClose
    \/ \E err \in NextErrors : StoppedNext(err)
    \/ GrpcWatchCtxDone

\* Every step of the watch goroutine is taken in the end: a Next on a
\* stopped Watcher returns, a sleep ends, Apply and update return.
SpecClose ==
    /\ Init
    /\ [][NextClose]_vars
    /\ WF_vars(\E err \in NextErrors : StoppedNext(err))
    /\ WF_vars(WatchWake)
    /\ WF_vars(GrpcWatchCtxDone)
    /\ WF_vars(ApplyStore("r1"))
    /\ WF_vars(HttpUpdateReturn)

\* A merged context under cancellation of its parents, its own cancel
\* function and concurrent calls of Err.
NextMerge ==
    \/ \E i \in {1, 2}, err \in ParentErrors : ParentDone(i, err)
    \/ MergeCancel
    \/ WaitSelect
    \/ \E e \in ErrCallers : ErrCall(e)
    \/ \E e \in ErrCallers : ErrLoadMark(e)
    \/ \E e \in ErrCallers : ErrReturnDoneErr(e)
    \/ \E e \in ErrCallers : ErrSelect(e)
    \/ \E p \in MergeProcs : FinishOnce(p)
    \/ \E p \in MergeProcs : FinishSetErr(p)
    \/ \E p \in MergeProcs : FinishSetMark(p)
    \/ \E p \in MergeProcs : FinishClose(p)
    \/ \E p \in MergeProcs : FinishReturn(p)
    \/ \E e \in ErrCallers : ErrTaken(e)

SpecMerge == Init /\ [][NextMerge]_vars

\* The watch goroutines of two sources, each delivering changes.
NextConfig ==
    \/ \E s \in Sources, val \in ConfigValues : ConfigNext(s, val)
    \/ \E s \in Sources : MergeClone(s)
    \/ \E s \in Sources : MergeStore(s)
    \/ \E s \in Sources : WatchResolve(s)

SpecConfig == Init /\ [][NextConfig]_vars

\* A WRR selector whose node set is applied again between Picks.
NextWrrAddr ==
    \/ \E S \in SUBSET WrrAddrs : WrrAddrApply(S)
    \/ WrrAddrPick

SpecWrrAddr == Init /\ [][NextWrrAddr]_vars

(***************************************************************************)
(* Properties.                                                             *)
(***************************************************************************)
Stored(k) == k # 0 /\ rank[k] # 0

NodesOf(ptrs) == [i \in 1..Len(ptrs) |-> NodeAt(ptrs[i])]

\* The Picks of a weighted node whose Done has not run yet.
Outstanding(wn) ==
    {p \in Clients : cl[p].res.done = wn /\ cl[p].pc \in {"selected", "sending", "calldone"}}

\* C1: under any interleaving of Apply and Select, the list a Select has
\* loaded and picks from is the list of exactly one Apply (every element
\* was built by that Apply, and they are its nodes in its order), and that
\* Apply is not older than the last one that had returned when the Select
\* began.
C1_SelectSeesOneApply ==
    \A p \in Clients :
        LET k == cl[p].ref
        IN /\ cl[p].pc = "loaded" =>
                /\ Stored(k)
                /\ rank[k] >= cl[p].floor
                /\ \A j \in 1..Len(arrays[k]) : arrays[k][j].b = k
                /\ NodesOf(arrays[k]) = applyArg[k]
           /\ (cl[p].pc = "selected" /\ cl[p].res.err = Nil) =>
                /\ Stored(k)
                /\ rank[k] >= cl[p].floor
                /\ cl[p].res.done.b = k
                /\ cl[p].res.node \in SeqRange(applyArg[k])

\* A Select that began after one Apply had returned has picked from the
\* list it loaded although a later Apply has replaced that list meanwhile.
C1_Witness ==
    \E p \in Clients :
        /\ cl[p].pc = "selected"
        /\ cl[p].res.err = Nil
        /\ cl[p].floor >= 1
        /\ cur # cl[p].ref

\* C2: the Done of a Pick runs at most once; every Pick adds one to the
\* node's inflight and every Done takes one off and updates the statistics
\* once, so inflight is the initial 1 plus the Picks whose Done is still to
\* run, and it is 1 again once they have all run.
C2_DoneOncePerPick ==
    /\ \A p \in Clients :
          /\ cl[p].doneCount <= 1
          /\ (cl[p].pc \in {"decode", "returned"} /\ cl[p].res.done # NilDone) =>
                cl[p].doneCount = 1
    /\ \A k \in Builds : \A i \in 1..Len(wnodes[k]) :
          LET out == Cardinality(Outstanding([b |-> k, i |-> i]))
          IN /\ wnodes[k][i].inflight = 1 + out
             /\ wnodes[k][i].reqs = wnodes[k][i].updates + out

\* A node was picked twice, concurrently, and both Dones have run.
C2_Witness ==
    \E k \in Builds : \E i \in 1..Len(wnodes[k]) :
        /\ wnodes[k][i].reqs = MaxPicks
        /\ wnodes[k][i].updates = MaxPicks
        /\ wnodes[k][i].inflight = 1

\* C3: a resolver never publishes an empty list: once a list is stored in
\* the Selector (or handed to the gRPC connection) it is never empty, and a
\* Select that began after the first publication never fails.
C3_ResolverKeepsLastGood ==
    /\ cur # 0 => Len(arrays[cur]) >= 1
    /\ \A k \in Builds : Stored(k) => Len(applyArg[k]) >= 1
    /\ ccState.updated => Len(ccState.addrs) >= 1
    /\ \A p \in Clients :
          (cl[p].pc = "selected" /\ cl[p].floor >= 1) => cl[p].res.err = Nil

\* A list was published, then an update without endpoints was refused,
\* then another list was published, and a Select has succeeded.
C3_Witness ==
    /\ rs.built = "http"
    /\ refused = 1
    /\ Stores > refused
    /\ \E p \in Clients : cl[p].pc = "selected" /\ cl[p].res.err = Nil

\* C7 (as claimed): when a call that obtained a node returns, Done has run
\* exactly once and was given the error the call returns.
C7_DoneCarriesTerminalError ==
    \A p \in Clients :
        (cl[p].pc = "returned" /\ cl[p].res.done # NilDone) =>
            /\ cl[p].doneCount = 1
            /\ cl[p].doneErr = cl[p].ret

\* C8: Select returns (nil, nil, ErrNoAvailable) when nothing was ever
\* applied, when the list applied last is empty, and when the filters keep
\* no node of it.
C8_SelectNoAvailable ==
    \A p \in Clients :
        LET k == cl[p].ref
        IN (/\ cl[p].pc = "selected"
            /\ \/ k = 0
               \/ applyArg[k] = <<>>
               \/ FilterMeaning(cl[p].filters, applyArg[k]) = <<>>)
           => cl[p].res = SelectFailed

\* The filters of a Select kept no node of a non-empty applied list.
C8_Witness ==
    \E p \in Clients :
        /\ cl[p].pc = "selected"
        /\ cl[p].ref # 0
        /\ applyArg[cl[p].ref] # <<>>
        /\ cl[p].filters # <<>>
        /\ FilterMeaning(cl[p].filters, applyArg[cl[p].ref]) = <<>>
        /\ cl[p].res.err = ErrNoAvailable

\* C9: a successful Select returns a node of the list it loaded, which is
\* a non-empty applied list no older than the last Apply returned when the
\* Select began; the node satisfies every version filter of the Select and
\* is among what its filters keep; the Done returned is not nil.
C9_SelectReturnsAppliedNode ==
    \A p \in Clients :
        LET k == cl[p].ref
            fs == cl[p].filters
        IN (cl[p].pc = "selected" /\ cl[p].res.err = Nil) =>
              /\ Stored(k)
              /\ rank[k] >= cl[p].floor
              /\ Len(applyArg[k]) >= 1
              /\ cl[p].res.node.addr \in {n.addr : n \in SeqRange(applyArg[k])}
              /\ \A j \in 1..Len(fs) :
                    fs[j].kind # "truncate" => cl[p].res.node.version = fs[j].version
              /\ cl[p].res.node \in SeqRange(FilterMeaning(fs, applyArg[k]))
              /\ cl[p].res.done # NilDone

\* A Select with a version filter returned a node of a list of which the
\* filter drops another node.
C9_Witness ==
    \E p \in Clients :
        /\ cl[p].pc = "selected"
        /\ cl[p].res.err = Nil
        /\ cl[p].filters # <<>>
        /\ Len(FilterMeaning(cl[p].filters, applyArg[cl[p].ref])) < Len(applyArg[cl[p].ref])

\* C10: no step changes the array of a stored list, and the list Select
\* loads changes only in a step in which an Apply stores its own.
C10_SnapshotChangesOnlyByApply ==
    [][/\ \A k \in Builds : rank[k] # 0 => arrays'[k] = arrays[k]
       /\ cur' # cur => \E r \in Appliers :
                           /\ ap[r].pc = "built"
                           /\ ap'[r].pc = "idle"
                           /\ cur' = ap[r].build]_vars

\* A Select whose filter writes over the slice it is handed has dropped a
\* node, and another Select of the same list has picked that node.
C10_Witness ==
    \E p, q \in Clients :
        /\ p # q
        /\ cl[p].pc = "selected"
        /\ cl[p].filters # <<>>
        /\ cl[p].filters[1].kind = "inplace"
        /\ cl[q].pc = "selected"
        /\ cl[q].ref = cl[p].ref
        /\ cl[q].res.err = Nil
        /\ cl[q].res.node.version # cl[p].filters[1].version

(***************************************************************************)
(* Application lifecycle properties.                                       *)
(***************************************************************************)
PhaseOrder == <<"beforeStart", "serverStart", "register", "afterStart",
                "beforeStop", "deregister", "serverStop", "afterStop">>

PhaseRank(ph) == CHOOSE i \in DOMAIN PhaseOrder : PhaseOrder[i] = ph

StateOrder == <<"Created", "Starting", "Running", "Stopping", "Stopped">>

StateRank(state) == CHOOSE i \in DOMAIN StateOrder : StateOrder[i] = state

\* C4: a registration that succeeded is deregistered exactly once by the
\* time Stop has returned, also when Start aborted after registering; there
\* is never more than one Deregister, and none at all when Register failed
\* or was never called.
C4_OneDeregisterPerRegistration ==
    /\ reg.deregs <= 1
    /\ reg.outcome # "ok" => reg.deregs = 0
    /\ (reg.outcome = "ok" /\ (app.stopPc = "done" \/ app.state = "Stopped"))
          => reg.deregs = 1

\* Start registered, an afterStart hook failed, and the Stop that followed
\* has returned after one Deregister.
C4_Witness ==
    /\ reg.outcome = "ok"
    /\ app.startPc \in {"aborted", "returned"}
    /\ \A i \in DOMAIN app.hist : app.hist[i] # "Running"
    /\ \A c \in StopCallers : called[c] \notin {"Starting", "Running"}
    /\ app.stopPc = "done"
    /\ reg.deregs = 1

\* C5: the k-th hook run in a phase is the k-th hook registered for it, and
\* the steps of a run follow the order beforeStart, server starts, Register,
\* afterStart, beforeStop, Deregister, server stops, afterStop.
C5_HooksFifoPhasesInOrder ==
    \A i \in DOMAIN evlog :
        /\ \A j \in DOMAIN evlog :
              i < j => PhaseRank(evlog[i].ph) <= PhaseRank(evlog[j].ph)
        /\ evlog[i].ph \in HookPhases
              => evlog[i].id = Cardinality({j \in 1..i : evlog[j].ph = evlog[i].ph})

\* A full run: two hooks in every phase, every server started and stopped,
\* one Register and one Deregister.
C5_Witness ==
    /\ app.stopPc = "done"
    /\ \A ph \in HookPhases : HooksRun(ph) >= 2
    /\ \A s \in Servers : srv[s].stops = 1
    /\ reg.deregs = 1
    /\ Len(evlog) = 8 + 2 * MaxServers + 2

\* C6: however many Stop calls arrive, and whenever, the application's
\* states follow Created, Starting, Running, Stopping, Stopped one way, each
\* entered at most once, with at most one Deregister and at most one Stop of
\* each server.
C6_StopOnceOneWay ==
    /\ \A i, j \in DOMAIN app.hist :
          i < j => StateRank(app.hist[i]) < StateRank(app.hist[j])
    /\ app.state = app.hist[Len(app.hist)]
    /\ reg.deregs <= 1
    /\ \A s \in Servers : srv[s].stops <= 1

\* One Stop arrived while Start was in progress, a second one while the
\* first was stopping, and the application has stopped.
C6_Witness ==
    /\ \E c, d \in StopCallers : called[c] = "Starting" /\ called[d] = "Stopping"
    /\ app.stopPc = "done"
    /\ app.state = "Stopped"
    /\ \A s \in Servers : srv[s].stops = 1
    /\ reg.deregs = 1

(***************************************************************************)
(* P2C balancer properties.                                                *)
(***************************************************************************)
\* Of the two nodes a Pick drew, by the weights it read; with equal weights
\* nodeA counts as the heavier.
Lighter(r) == IF r.wb > r.wa THEN r.nodeA ELSE r.nodeB

Heavier(r) == IF r.wb > r.wa THEN r.nodeB ELSE r.nodeA

Chosen(n) == \E q \in Pickers : pk[q].at = "node" /\ pk[q].pc = n

\* C11: no two forced picks are less than 3 s apart, however many Picks
\* find a candidate whose last pick is more than 3 s old.
C11_OneForcedPickPerWindow == Len(probes) <= 1

C13_LighterPickedWheneverStale ==
    \A q \in Pickers :
        pk[q].at = "node"
            => pk[q].pc = IF pk[q].stale THEN Lighter(pk[q]) ELSE Heavier(pk[q])

\* C13, amended: the lighter is chosen when it has not been picked for
\* more than 3 s and no other Pick holds the force-probe flag at the moment
\* of the compare-and-swap; otherwise the heavier is chosen.
C13_LighterPickedWhenStaleAndFlagFree ==
    [][\A q \in Pickers :
          (pk[q].at # "node" /\ pk'[q].at = "node")
              => pk'[q].pc =
                    IF pk'[q].stale
                       /\ ~(picked = 1 /\ \E o \in Pickers \ {q} : pk[o].at = "store")
                    THEN Lighter(pk'[q]) ELSE Heavier(pk'[q])]_vars

\* A Pick that read two different weights and found the lighter node
\* stale is about to pick it.
C13_Witness ==
    \E q \in Pickers :
        /\ pk[q].at = "node"
        /\ pk[q].stale
        /\ pk[q].slot = "won"
        /\ pk[q].wa # pk[q].wb
        /\ pk[q].pc = Lighter(pk[q])

(***************************************************************************)
(* Weighted round robin properties.                                        *)
(***************************************************************************)
TimesPicked(i) == Cardinality({k \in DOMAIN wrrPicked : wrrPicked[k] = i})

\* C14: among any sum-of-weights consecutive picks of a balancer that
\* started fresh, node i is picked exactly w_i times.
C14_PicksInProportion ==
    Len(wrrPicked) = SumWeights(wrrNodes)
        => \A i \in DOMAIN wrrNodes : TimesPicked(i) = wrrNodes[i]

\* Two nodes, the second with twice the weight of the first, after more
\* picks than the sum of the weights.
C14_Witness ==
    /\ Len(wrrNodes) = 2
    /\ wrrNodes[2] = 2 * wrrNodes[1]
    /\ Len(wrrPicked) = SumWeights(wrrNodes)
    /\ wrrPicked[1] # wrrPicked[Len(wrrPicked)]
    /\ \E i \in DOMAIN currentWeight : currentWeight[i] # 0
    /\ TimesPicked(2) = 2 * TimesPicked(1)

(***************************************************************************)
(* EWMA statistics properties.                                             *)
(***************************************************************************)
\* C15: success stays within 0..1000; the Done of a call that failed on the
\* server's side stores a success no higher than the one it loaded and not
\* below 0, and the Done of any other call stores one no lower than the
\* one it loaded.
C15_SuccessWithinRange ==
    /\ [](ew.success \in 0..SuccessMax)
    /\ [][\A d \in Doners :
             (dn[d].at = "store" /\ dn'[d].at = "idle")
                 => IF SuccessOf(dn[d].err) = 0
                    THEN ew'.success \in 0..dn[d].oldSuc
                    ELSE ew'.success \in dn[d].oldSuc..SuccessMax]_vars

\* After Dones of failed and of successful calls, some of them concurrent
\* and one with the stamp ahead of its clock reading, success lies
\* strictly between 0 and 1000.
C15_Witness ==
    /\ dones >= 3
    /\ ew.success \in 1..(SuccessMax - 1)
    /\ \E d \in Doners : dn[d].at = "store" /\ dn[d].now < ew.stamp
                            /\ dn[d].oldSuc # ew.success

(***************************************************************************)
(* Resolver construction and watch loop properties.                        *)
(***************************************************************************)
Distinct(addrs) == \A i, j \in DOMAIN addrs : i # j => addrs[i] # addrs[j]

\* C16: the background watch loop ends only on cancellation (Next returns
\* context.Canceled or, for gRPC, the loop finds its context done); any
\* other error of Next puts the loop to sleep, and from the sleep it goes
\* on to call Next again.
C16_WatchLoopSurvivesErrors ==
    [][/\ (wt.loop # "ended" /\ wt'.loop = "ended")
             => \/ wt'.errs = wt.errs + 1 /\ wt'.lastErr = "canceled"
                \/ rs.built = "grpc" /\ wt.ctxDone
       /\ (wt.loop = "next" /\ wt'.errs = wt.errs + 1 /\ wt'.lastErr = "failed")
             => wt'.loop = "sleep"
       /\ wt.loop = "sleep" => wt'.loop \in {"sleep", "next"}]_vars

\* After as many failures of Next as the model allows, the background loop
\* is applying an instance set delivered afterwards.
C16_Witness ==
    /\ wt.errs = MaxRetries
    /\ wt.lastErr = "failed"
    /\ ~wt.block
    /\ wt.loop = "applying"
    /\ ap["r1"].pc = "built"

\* C17: with block, the constructor has returned a resolver only if a
\* non-empty node list is stored in the Selector; it has returned an error
\* only with the Watcher stopped, after Next failed or the context ended.
C17_BlockWaitsForFirstUpdate ==
    /\ (wt.block /\ wt.phase = "built") => (cur # 0 /\ Len(applyArg[cur]) >= 1)
    /\ wt.phase = "failed"
          => wt.block /\ wt.stopped /\ (wt.lastErr # "none" \/ wt.ctxDone)

\* With block, Next never failed and the context never ended, one update
\* was applied, and the constructor has returned the resolver.
C17_Witness ==
    /\ wt.block
    /\ wt.phase = "built"
    /\ refused = 0
    /\ builds = 1
    /\ cur = 1
    /\ wt.errs = 0
    /\ ~wt.ctxDone

\* C18: no list that a resolver has published, to the Selector or to the
\* gRPC connection state, holds two nodes of the same address.
C18_NoDuplicateAddresses ==
    /\ \A k \in Builds :
          Stored(k) => Distinct([i \in DOMAIN applyArg[k] |-> applyArg[k][i].addr])
    /\ Distinct([i \in DOMAIN ccState.addrs |-> ccState.addrs[i].Addr])

(***************************************************************************)
(* Middleware chain and matcher properties.                                *)
(***************************************************************************)
Reverse(s) == [i \in 1..Len(s) |-> s[Len(s) + 1 - i]]

\* C19: a finished call through Chain(m1, ..., mn)(H) has run the
\* pre-hooks of m1, ..., mn in that order, then H, then the post-hooks of
\* mn, ..., m1.
C19_ChainMirrorOrder ==
    chain.at = "done"
        => chain.log = [i \in 1..Len(chain.arg) |-> <<"pre", chain.arg[i]>>]
                         \o <<<<"handle", "H">>>>
                         \o [i \in 1..Len(chain.arg) |-> <<"post", Reverse(chain.arg)[i]>>]

\* A call through a chain of three different middlewares has finished.
C19_Witness ==
    /\ chain.at = "done"
    /\ Len(chain.arg) = 3
    /\ Cardinality(SeqRange(chain.arg)) = 3
    /\ Len(chain.log) = 7

\* The registered prefix selectors that are a prefix of the operation.
PrefixesOf(operation) ==
    {p \in Paths : mt.added[[path |-> p, star |-> TRUE]] # NoEntry /\ HasPrefix(operation, p)}

\* What Match is to return, by the selectors added so far.
Expected(operation) ==
    LET exact == mt.added[[path |-> operation, star |-> FALSE]]
        ps == PrefixesOf(operation)
    IN mt.defaults \o
         (IF exact # NoEntry THEN exact
          ELSE IF ps # {}
               THEN mt.added[[path |-> CHOOSE p \in ps : \A o \in ps : Len(o) <= Len(p),
                              star |-> TRUE]]
               ELSE <<>>)

\* C20: Match(operation) is the defaults followed by the middleware of the
\* exact selector equal to the operation if one was added, else by that of
\* the longest added prefix selector that is a prefix of the operation,
\* else by nothing, whatever the order of the Adds.
C20_MatchExactThenLongestPrefix ==
    mt.asked => mt.res = Expected(mt.op)

\* C21: after any sequence of Add calls the stored prefixes are in
\* descending order of length.
C21_PrefixesByDescendingLength ==
    \A i, j \in DOMAIN mt.prefix : i < j => Len(mt.prefix[i]) >= Len(mt.prefix[j])

\* C21 (amended): after any sequence of Add calls the stored prefixes are
\* in descending string order, so that of two stored prefixes of which one
\* is a proper prefix of the other the longer one comes first.
C21_PrefixesByDescendingStringOrder ==
    \A i, j \in DOMAIN mt.prefix :
        i < j => /\ ~StrGreater(mt.prefix[j], mt.prefix[i])
                 /\ (HasPrefix(mt.prefix[j], mt.prefix[i])
                        => mt.prefix[j] = mt.prefix[i])

\* Three prefix selectors were added; the first two stored differ, and one
\* stored prefix is a proper prefix of one stored before it.
C21_Witness ==
    /\ Len(mt.prefix) = 3
    /\ \E i, j \in DOMAIN mt.prefix :
          /\ i < j
          /\ mt.prefix[i] # mt.prefix[j]
          /\ HasPrefix(mt.prefix[i], mt.prefix[j])
    /\ mt.prefix[1] # mt.prefix[2]

(***************************************************************************)
(* gRPC interceptor properties.                                            *)
(***************************************************************************)
\* The position of the RPC handler's event in the log of the RPC.
HandlerAt == CHOOSE i \in DOMAIN rpc.log : rpc.log[i] = <<"handle", "H">>

\* C22: a finished RPC, unary or streaming, whose operation matched
\* middleware has run the matched chain around its handler: the pre-hooks
\* of the matched middlewares in order before the handler and their
\* post-hooks in reverse order after it.
C22_MatchedChainAroundHandler ==
    (rpc.at = "done" /\ Len(rpc.next) > 0)
        => LET n == Len(rpc.next)
           IN /\ HandlerAt = n + 1
              /\ \A i \in 1..n : rpc.log[i] = <<"pre", rpc.next[i]>>
              /\ Len(rpc.log) >= 2 * n + 1
              /\ \A i \in 1..n : rpc.log[Len(rpc.log) + 1 - i] = <<"post", rpc.next[i]>>

(***************************************************************************)
(* Transport server properties.                                            *)
(***************************************************************************)
\* C23: once the deadline of the ctx given to Stop has passed, Stop
\* returns, for the HTTP server and for the gRPC server, whether or not
\* the requests in flight finish.
C23_StopReturnsByDeadline ==
    (sv.stop = "stopping" /\ sv.ctxDone) ~> (sv.stop = "returned")

\* C24: across any sequence of Endpoint and Start calls on one server the
\* listener is bound at most once, and every successful Endpoint call
\* returned the same URL, the server's endpoint.
C24_OneBindOneUrl ==
    /\ sv.binds <= 1
    /\ sv.returned # {} => sv.returned = {sv.endpoint} /\ sv.endpoint # 0

\* Endpoint bound the listener and returned the URL, Endpoint was called
\* again with success and Start then began serving.
C24_Witness ==
    /\ sv.calls >= 2
    /\ sv.returned # {}
    /\ sv.start = "serving"
    /\ sv.binds = 1

(***************************************************************************)
(* HTTP client call properties.                                            *)
(***************************************************************************)
\* C25: once the round trip of a call is over, with or without an error,
\* the after hook of every per-call option has been applied.
C25_AfterHooksOnEveryExit ==
    \A p \in Clients :
        (cl[p].pc \in {"decode", "returned"} /\ cl[p].doneCount = 1)
            => cl[p].after = CallOptions

\* The error of a call for which Select had no node.
NoNodeError == ServiceUnavailable(ErrNodeNotFound, ErrorText(ErrNoAvailable))

\* C26: when Select has no node, because nothing or an empty list was
\* applied or because the filters kept no candidate, the call returns the
\* one ServiceUnavailable error, sends no request and runs no Done.
C26_NoNodeSameErrorNoRequest ==
    /\ [](\A p \in Clients :
            (cl[p].pc = "returned" /\ cl[p].res.err # Nil)
                => /\ cl[p].ret = NoNodeError
                   /\ cl[p].ret.code = 503
                   /\ cl[p].doneCount = 0)
    /\ [][\A p \in Clients :
            (cl[p].pc = "selected" /\ cl[p].res.err # Nil /\ cl'[p] # cl[p])
                => /\ cl'[p].pc = "returned"
                   /\ cl'[p].ret = NoNodeError
                   /\ wnodes' = wnodes]_vars

\* A call whose filters kept no node of a non-empty applied list has
\* returned the error, without a Done.
C26_Witness ==
    \E p \in Clients :
        /\ cl[p].pc = "returned"
        /\ cl[p].ret = NoNodeError
        /\ cl[p].ref # 0
        /\ applyArg[cl[p].ref] # <<>>
        /\ cl[p].filters # <<>>
        /\ cl[p].doneCount = 0

\* C27: a Select that succeeds stores the selected node in the Peer of the
\* call's context, and a Select that returns an error leaves the Peer as
\* it was.
C27_PeerSetOnSuccessOnly ==
    [][\A p \in Clients :
          (cl[p].pc \in {"select", "loaded"} /\ cl'[p].pc = "selected")
              => IF cl'[p].res.err = Nil
                 THEN cl'[p].peer = cl'[p].res.node /\ cl'[p].peer # NilNode
                 ELSE cl'[p].peer = cl[p].peer]_vars

\* A Select failed in a context whose Peer holds the node of an earlier
\* Select, and the Peer still holds it.
C27_Witness ==
    \E p \in Clients :
        /\ cl[p].pc = "selected"
        /\ cl[p].res.err # Nil
        /\ cl[p].peer # NilNode

(***************************************************************************)
(* ServiceInstance.Equal properties.                                       *)
(***************************************************************************)
\* C28: Equal returns true exactly when the two instances have the same
\* ID, name and version, the same endpoints once sorted, and the same
\* metadata map.
C28_EqualIffAllFieldsEqual ==
    eq.called =>
        (eq.res <=> /\ eq.i.id = eq.o.id
                    /\ eq.i.name = eq.o.name
                    /\ eq.i.version = eq.o.version
                    /\ eq.i.endpoints = eq.o.endpoints
                    /\ eq.i.metadata = eq.o.metadata)

(***************************************************************************)
(* Error.Is properties.                                                    *)
(***************************************************************************)
\* C29: e.Is(err) for two framework errors is true exactly when their
\* codes are equal and their reasons are equal, whatever their messages,
\* metadata and causes.
C29_IsByCodeAndReason ==
    (er.called /\ er.err.kind = "kratos")
        => (er.res <=> (er.e.code = er.err.code /\ er.e.reason = er.err.reason))

\* Two framework errors of one code and reason matched although message,
\* metadata and cause all differ, the cause of one being a framework error
\* of another code.
C29_Witness ==
    /\ er.called
    /\ er.err.kind = "kratos"
    /\ er.res
    /\ er.e.message # er.err.message
    /\ er.e.metadata # er.err.metadata
    /\ er.e.cause # er.err.cause
    /\ er.err.cause.kind = "kratos"
    /\ er.err.cause.code # er.err.code

(***************************************************************************)
(* In-flight ring properties.                                              *)
(***************************************************************************)
\* The Picks whose Done has not run.
OutstandingPicks == {k \in RingCallers : ring.k[k].at = "out"}

NonZeroSlots == {s \in Slots : ring.inflights[s] # 0}

\* C30: a slot of the ring is written only by a Pick that found it 0 and
\* cleared only by the Done of that Pick; the slots that are not 0 are
\* never more than the outstanding Picks, and all slots are 0 once every
\* Done has run.
C30_RingSlotsOwnedByPicks ==
    /\ [](/\ Cardinality(NonZeroSlots) <= Cardinality(OutstandingPicks)
          /\ (\A k \in RingCallers : ring.k[k].at = "idle") => NonZeroSlots = {})
    /\ [][\A s \in Slots :
            /\ (ring'.inflights[s] # ring.inflights[s] /\ ring'.inflights[s] # 0)
                  => /\ ring.inflights[s] = 0
                     /\ \E k \in RingCallers :
                           /\ ring.k[k].at = "cas" /\ ring'.k[k].at = "out"
                           /\ ring.k[k].slot = s
                           /\ ring'.k[k].swapped
            /\ (ring.inflights[s] # 0 /\ ring'.inflights[s] = 0)
                  => \E k \in RingCallers :
                        /\ ring.k[k].at = "out" /\ ring'.k[k].at = "idle"
                        /\ ring.k[k].swapped
                        /\ ring.k[k].slot = s
                        /\ ring.owner[s] = k]_vars

\* Two outstanding Picks read the same time and met on one slot: the
\* first wrote it and the second found it taken; a third Pick has already
\* been cleared by its Done.
C30_Witness ==
    /\ ring.reqs >= 3
    /\ \E a, b \in RingCallers :
          /\ a # b
          /\ ring.k[a].at = "out" /\ ring.k[b].at = "out"
          /\ ring.k[a].slot = ring.k[b].slot
          /\ ring.k[a].start = ring.k[b].start
          /\ ring.k[a].swapped /\ ~ring.k[b].swapped
          /\ ring.owner[ring.k[a].slot] = a
          /\ Cardinality(NonZeroSlots) = 1
    /\ \E c \in RingCallers : ring.k[c].at = "idle"

(***************************************************************************)
(* Concurrent Done properties.                                             *)
(***************************************************************************)
\* The statistics after one closure ran alone on statistics s: u holds the
\* closure's ratio and samples as it began.
Alone(s, u) ==
    LET w == IF s.lag = 0 THEN 0 ELSE u.w
    IN [lag |-> Mix(s.lag, u.lag, w), success |-> Mix(s.success, u.suc, w)]

\* A closure's ratio and samples as it began.
Began(g) == [w |-> rc.d[g].w0, lag |-> rc.d[g].lag, suc |-> rc.d[g].suc]

\* C31: when the Done closures that overlapped have all returned, lag and
\* success are what the closures give when they run one after the other,
\* in some order, on the statistics the node had before them.
C31_ConcurrentDonesSerializable ==
    (rc.round = Racers /\ \A g \in Racers : rc.d[g].at = "idle")
        => [lag |-> rc.lag, success |-> rc.success]
              \in {Alone(Alone(rc.base, Began(a)), Began(b)) :
                      <<a, b>> \in {<<"g1", "g2">>, <<"g2", "g1">>}}
\* The error is or wraps context.DeadlineExceeded or context.Canceled.
WrapsContextError(err) ==
    \E i \in 1..Len(err) : err[i] \in {"deadline", "canceled"}

\* C32: a Done with a nil error or an error outside the server-side classes
\* gives the sample 1000; an error that is or wraps a context
\* deadline-exceeded or canceled error, is service-unavailable or
\* gateway-timeout, is a network error or is accepted by the ErrHandler
\* gives the sample 0.
C32_SampleByErrorClass ==
    cf.called =>
        cf.sample = IF /\ cf.err # NoError
                       /\ \/ WrapsContextError(cf.err)
                          \/ IsServiceUnavailable(cf.err)
                          \/ IsGatewayTimeout(cf.err)
                          \/ AsNetError(cf.err)
                          \/ ErrHandlerAccepts(cf.handler, cf.err)
                    THEN 0
                    ELSE SuccessMax
\* The ordered pairs of distinct nodes of a list of length n.
DistinctPairs(n) == {p \in (1..n) \X (1..n) : p[1] # p[2]}

\* The pairs prePick yields over all values of the two random draws.
Drawable(n) ==
    {<<PrePick(a, b).nodeA, PrePick(a, b).nodeB>> : a \in 0..(n - 1), b \in 0..(n - 2)}

\* C33: for a node list of length n >= 2 the two indices prePick draws are
\* distinct and lie in [0, n), and every ordered pair of distinct indices
\* is the result of some draw.
C33_TwoDistinctIndicesAllPairs ==
    /\ dr.seen \subseteq DistinctPairs(dr.n)
    /\ \A n \in ListLens : Drawable(n) = DistinctPairs(n)

\* Over a list of the largest length every ordered pair of distinct nodes
\* has been drawn.
C33_Witness ==
    /\ dr.n = MaxDrawNodes
    /\ dr.seen = DistinctPairs(MaxDrawNodes)
\* The statistics of the nodes of the stored snapshot, in list order.
SnapshotStats(ws) == [j \in 1..Len(arrays[cur]) |-> ws[arrays[cur][j].b][arrays[cur][j].i]]

\* C34: a Done obtained from a Select of an earlier snapshot and invoked
\* after a later Apply stored its list changes the statistics of no node
\* of the stored snapshot, also when the Done's address is in both.
C34_StaleDoneLeavesNewSnapshot ==
    [][\A p \in Clients :
          (/\ cl[p].pc = "calldone"
           /\ cl'[p].pc # "calldone"
           /\ cur # 0
           /\ cl[p].res.done.b # cur)
              => SnapshotStats(wnodes') = SnapshotStats(wnodes)]_vars

\* A call picked a node of the first snapshot, an Apply then stored a list
\* with the same address, and the call's Done has run: the old node has its
\* update, the new node of that address has none.
C34_Witness ==
    \E p \in Clients : \E j \in 1..(IF cur = 0 THEN 0 ELSE Len(arrays[cur])) :
        LET wn == cl[p].res.done
            new == arrays[cur][j]
        IN /\ cl[p].doneCount = 1
           /\ wn # NilDone
           /\ wn.b # cur
           /\ rank[wn.b] # 0
           /\ rank[wn.b] < rank[cur]
           /\ new.b = cur
           /\ wnodes[new.b][new.i].node.addr = wnodes[wn.b][wn.i].node.addr
           /\ wnodes[wn.b][wn.i].updates = 1
           /\ wnodes[new.b][new.i].updates = 0
           /\ wnodes[new.b][new.i].inflight = 1
\* C35: after a resolver is closed its background watch loop ends in the
\* end, whatever error Next returns once the Watcher is stopped: from then
\* on it calls Next no more and publishes no update.
C35_ClosedWatchLoopEnds ==
    (wt.phase = "built" /\ wt.stopped) ~> (wt.loop = "ended")
\* C36: an Add under an exact selector changes what Match returns only for
\* the operation equal to that selector; what a prefix selector added
\* before yields for the other operations stays as it was.
C36_ExactAddTouchesOneOperation ==
    [][\A sel \in Selectors :
          (~sel.star /\ mt'.adds = mt.adds + 1 /\ mt'.added[sel] # mt.added[sel])
              => \A operation \in Paths \ {sel.path} :
                    Match(mt', operation) = Match(mt, operation)]_vars
\* C37: whenever Err of the merged context returns a non-nil error the Done
\* channel is closed already, under every interleaving of the parents'
\* cancellation, the merged cancel function and concurrent calls of Err.
C37_ErrNonNilOnlyAfterDoneClosed ==
    \A e \in ErrCallers :
        (mc.g[e].at = "returned" /\ mc.g[e].ret # Nil) => mc.g[e].closed
\* C38: when the watchers of two sources deliver changes concurrently, both
\* changes are in the merged configuration once both Merge calls have
\* returned: no Merge puts a stale value over the other's merged key.
C38_ConcurrentMergesKeepBoth ==
    (\A s \in Sources : cfg.g[s].at \in {"idle", "resolve"} /\ cfg.g[s].last # 0)
        => \A s \in Sources : cfg.values[KeyOf(s)] = cfg.g[s].last
\* C39: after an Apply the balancer holds accumulator entries only for the
\* addresses of the current node set, so that a node that was removed and
\* is added again starts from the accumulator 0.
C39_AccumulatorsOnlyForCurrentNodes ==
    wra.applies > 0 =>
        /\ wra.keys \subseteq SeqRange(wra.nodes)
        /\ \A a \in WrrAddrs \ SeqRange(wra.nodes) : wra.cw[a] = 0
\* The lags and success rates from which a Weight is computed.
LagValues == {0, 1000000}

PredictValues == {0, 2000000}

HealthValues == {0, SuccessMax}

\* C40: with each Done run at most once per Pick, a node's inflight never
\* falls below its initial 1, so the load Weight divides by is never 0 and
\* the weight is finite and not negative.
C40_InflightKeepsWeightFinite ==
    \A inflight \in UNION {{wnodes[k][i].inflight : i \in 1..Len(wnodes[k])} : k \in Builds} :
        /\ inflight >= 1
        /\ \A avgLag \in LagValues, predict \in PredictValues, health \in HealthValues :
              LET weight == NodeWeight(health, NodeLoad(avgLag, predict, inflight))
              IN weight.den > 0 /\ weight.num >= 0

\* A node was picked twice, the Done of one Pick has run and the other
\* call is still out: inflight is 2 and the load of the node, were it
\* without statistics, twice the penalty.
C40_Witness ==
    \E k \in Builds : \E i \in 1..Len(wnodes[k]) :
        /\ wnodes[k][i].reqs = 2
        /\ wnodes[k][i].updates = 1
        /\ wnodes[k][i].inflight = 2
        /\ NodeLoad(0, 0, wnodes[k][i].inflight) = 200000
        /\ NodeLoad(1000000, 0, wnodes[k][i].inflight) = 2 * ISqrt(6000000)


================================================================
